---- MODULE Spec2Model ----
(***************************************************************************)
(* Model of the Timeline System of the engine (TimelineSystem.cpp), of the  *)
(* transition callbacks it dispatches (TimelineBehavior.h) and of the       *)
(* Coordinator (component registry, entity manager, system dispatcher)      *)
(* the systems and the editor (Graphics.cpp) call; of the pause flag, the    *)
(* sort and the entity panel of Graphics::Update, and of the Animation      *)
(* System (AnimationSystem.cpp).                                            *)
(*                                                                         *)
(* Time is counted in milliseconds: the C++ floats 1.0f (one second) and   *)
(* 0.016f (one 60 FPS frame) are the integers OneSecond and FrameStep.     *)
(***************************************************************************)
EXTENDS Integers, Sequences, FiniteSets, TLC

\* ------------------------------------------------------------------ bounds
\* No accumulator or timer is driven past MaxTime (Update is not taken then).
MaxTime == 3000

\* The entity manager hands out the ids 1 .. MaxEntities.
MaxEntities == 2

\* The systems outside the three modelled ones register their kinds in batches.
OtherBatch == 4

\* ------------------------------------------------------- program constants
FrameStep == 16
OneSecond == 1000

\* Width of an entity signature: the number of component kinds it has a bit for.
MaxComponents == 32

\* ------------------------------------------------------------ input domains
Layers == {"Background", "UI"}
DeltaTimes == {0, 500, 1000, 2500}
Delays == {0, 1000}
Durations == {1000, 2000}
TimelineTags == {"A", "B"}
ToggleTags == {"A", "B", "Boss"}

\* text.fontSize of an entity with a TextComponent, as the editor's input sets it.
FontSize == 24

NoCallback == "<null>"

\* The names RegisterTimelineEvents binds to callbacks.
Registered ==
    { "SlideIn", "SlideY", "CreditsY", "Blinking", "BlinkingNoSpawn", "SlideOut",
      "SlideOutWarning", "FadeOut", "FadeIn", "ScaleUp", "TransitionToScene",
      "RetryFunctions", "SlideInBounce", "SlideInWobbly", "SlideInCircular",
      "SlideInElastic", "SlideDiag", "TextPopUp", "TextPopUpFlyOut",
      "FadeOutTransitionToMenu", "SlowAbilityPrefab" }

\* One name for each way a callback writes the timeline's phase and timer: not at
\* all, reset and flip on completion, reset and loop, advance by a frame, reset
\* after a second of bounce, reset after a second.
ClassReps == { "FadeOut", "SlideIn", "CreditsY", "Blinking", "SlideInBounce", "FadeIn" }

VARIABLES
    play,             \* engineState.IsPlay()
    layerVisibility,  \* engineState.layerVisibility : layer -> bool
    mEntities,        \* the Timeline System's member set
    layerID,          \* LayerComponent.layerID of each member
    timeline,         \* TimelineComponent of each member
    tags,             \* the tags each member carries, in the order added
    ecs,              \* the Coordinator: component registry, entity manager, systems
    paused,           \* engineState.IsPaused()
    selectedEntity,   \* the editor's selection (NoEntity: none)
    isPropertiesWindowOpen,  \* the editor's "Entity Properties" window is shown
    sortedEntities,   \* Graphics::sortedEntities, the draw order of the last frame
    openPopup,        \* the modal popup the editor shows (NoPopup: none)
    cues,             \* history: per member, the audio cues played in this activation
    last,             \* history: the operation that produced this state
    trace             \* history: per member, what the last operation did to it

\* The statics of Graphics.cpp.
editorVars == <<selectedEntity, isPropertiesWindowOpen, sortedEntities, openPopup>>

NoPopup == "<none>"

vars ==
    <<play, layerVisibility, mEntities, layerID, timeline, tags, ecs, paused,
      selectedEntity, isPropertiesWindowOpen, sortedEntities, openPopup, cues, last,
      trace>>

\* ------------------------------------------------------ transition callbacks
\* progress >= 1.0f, where progress = std::min(timer / TransitionDuration, 1.0f):
\* for a positive duration the float quotient is >= 1 exactly when timer >= duration;
\* for a zero duration it is +inf (clamped to 1) when timer > 0 and NaN when timer = 0.
ProgressComplete(tl, timer) ==
    IF tl.TransitionDuration > 0 THEN timer >= tl.TransitionDuration
    ELSE tl.TransitionDuration = 0 /\ timer > 0

\* progress < num / den, for the same progress.
ProgressBelow(tl, timer, num, den) ==
    tl.TransitionDuration > 0 /\ den * timer < num * tl.TransitionDuration

Effect(tl, fx) == [tl |-> tl, fx |-> fx]

SlideInTransition(tl, timer) ==
    IF ProgressComplete(tl, timer)
    THEN Effect([tl EXCEPT !.IsTransitioningIn = FALSE, !.InternalTimer = 0],
                {"SetPaused(false)", "TransitionToScene"})
    ELSE Effect(tl, {})

SlideOutLoops(tl, timer) ==
    IF ProgressComplete(tl, timer)
    THEN Effect([tl EXCEPT !.IsTransitioningIn = TRUE, !.InternalTimer = 0], {})
    ELSE Effect(tl, {})

SlideOut(tl, timer) ==
    IF ProgressComplete(tl, timer)
    THEN Effect([tl EXCEPT !.IsTransitioningIn = FALSE, !.InternalTimer = 0], {})
    ELSE Effect(tl, {})

SlideOutWarning(tl, timer) ==
    IF ProgressComplete(tl, timer)
    THEN Effect([tl EXCEPT !.IsTransitioningIn = FALSE], {"LoadPrefab"})
    ELSE Effect(tl, {})

SlideInElastic(tl, timer) ==
    IF ProgressComplete(tl, timer)
    THEN Effect([tl EXCEPT !.IsTransitioningIn = FALSE, !.InternalTimer = 0], {})
    ELSE Effect(tl, {})

SlideUpClearsEarly(tl, timer) ==
    IF ProgressComplete(tl, timer)
    THEN Effect([tl EXCEPT !.IsTransitioningIn = FALSE], {"SetPaused(false)"})
    ELSE Effect(tl, {"SetPaused(false)"})

SlideUp(tl, timer) ==
    IF ProgressComplete(tl, timer)
    THEN Effect([tl EXCEPT !.IsTransitioningIn = FALSE], {"SetPaused(false)"})
    ELSE Effect(tl, {})

Credits(tl, timer) ==
    IF ProgressComplete(tl, timer)
    THEN Effect([tl EXCEPT !.InternalTimer = 0, !.IsTransitioningIn = TRUE], {})
    ELSE Effect(tl, {})

SlideDiag(tl, timer) ==
    IF ProgressComplete(tl, timer)
    THEN Effect([tl EXCEPT !.IsTransitioningIn = FALSE], {"SetPaused(false)"})
    ELSE Effect(tl, {})

SlideInBounce(tl, timer) ==
    IF ProgressComplete(tl, timer)
    THEN LET bounceTime == tl.InternalTimer
         IN IF bounceTime > OneSecond
            THEN Effect([tl EXCEPT !.IsTransitioningIn = FALSE, !.InternalTimer = 0],
                        {"SetPaused(false)"})
            ELSE Effect([tl EXCEPT !.InternalTimer = @ + FrameStep], {})
    ELSE Effect(tl, {})

SlideInWobbly(tl, timer) ==
    IF ProgressComplete(tl, timer)
    THEN Effect([tl EXCEPT !.IsTransitioningIn = FALSE], {"SetPaused(false)"})
    ELSE Effect(tl, {})

SlideInCircular(tl, timer) ==
    IF ProgressComplete(tl, timer)
    THEN Effect([tl EXCEPT !.IsTransitioningIn = FALSE], {"SetPaused(false)"})
    ELSE Effect(tl, {})

BlinkEffect(tl, timer) ==
    IF tl.IsTransitioningIn
    THEN LET t == tl.InternalTimer + FrameStep
         IN IF t >= tl.TransitionDuration
            THEN Effect([tl EXCEPT !.InternalTimer = t, !.IsTransitioningIn = FALSE],
                        {"LoadPrefab"})
            ELSE Effect([tl EXCEPT !.InternalTimer = t], {})
    ELSE Effect(tl, {})

BlinkEffectWithoutBossSpawnPrefabs(tl, timer) ==
    IF tl.IsTransitioningIn
    THEN LET t == tl.InternalTimer + FrameStep
         IN IF t >= tl.TransitionDuration
            THEN Effect([tl EXCEPT !.InternalTimer = t, !.IsTransitioningIn = FALSE], {})
            ELSE Effect([tl EXCEPT !.InternalTimer = t], {})
    ELSE Effect(tl, {})

\* The parameter the source calls "progress" is the InternalTimer Update passes.
FadeInEvent(tl, progress) ==
    IF progress >= OneSecond
    THEN Effect([tl EXCEPT !.InternalTimer = 0, !.IsTransitioningIn = FALSE], {})
    ELSE Effect(tl, {})

FadeOutEvent(tl, progress) == Effect(tl, {})

FadeOutThenTransitMenu(tl, progress) ==
    Effect(tl, IF progress >= OneSecond THEN {"TransitionToScene"} ELSE {})

RetryFunction(tl, progress) == Effect(tl, {"TransitionToScene"})

ScaleUpEvent(tl, progress) == Effect(tl, {})

TransitionToSceneEvent(tl, progress) ==
    Effect(tl, IF progress >= OneSecond THEN {"TransitionToScene"} ELSE {})

TextPopupFlyOut(tl, timer) == Effect(tl, {})

\* Variable_1 and Variable_2 cache the font size and its peak on the first call;
\* Variable_3, the current size, is rewritten by every call and is not kept here.
TextPopup(tl, timer) ==
    IF tl.Variable_1 = 0
    THEN Effect([tl EXCEPT !.Variable_1 = FontSize, !.Variable_2 = (FontSize * 3) \div 2], {})
    ELSE Effect(tl, {})

\* Variable_2 and Variable_1 are the switches of the two cues: a cue is played
\* when its switch is 0, and the switch is set to 1. Nothing sets them back.
SlowPrefabFunction(tl, timer) ==
    LET slow == IF tl.Variable_2 = 0 THEN {"PlaySound(TimeSlow)"} ELSE {}
        tl1 == [tl EXCEPT !.Variable_2 = IF @ = 0 THEN 1 ELSE @]
    IN IF ProgressBelow(tl, timer, 1, 4) \/ ProgressBelow(tl, timer, 3, 4)
       THEN Effect(tl1, slow)
       ELSE Effect([tl1 EXCEPT !.Variable_1 = IF @ = 0 THEN 1 ELSE @],
                   slow \cup (IF tl1.Variable_1 = 0 THEN {"PlaySound(TimeGoBack)"} ELSE {}))

\* GlobalLogicManager's name -> callback table, as RegisterTimelineEvents fills it.
Call(name, tl, timer) ==
    CASE name = "SlideIn" -> SlideInTransition(tl, timer)
      [] name = "SlideY" -> SlideUp(tl, timer)
      [] name = "CreditsY" -> Credits(tl, timer)
      [] name = "Blinking" -> BlinkEffect(tl, timer)
      [] name = "BlinkingNoSpawn" -> BlinkEffectWithoutBossSpawnPrefabs(tl, timer)
      [] name = "SlideOut" -> SlideOut(tl, timer)
      [] name = "SlideOutWarning" -> SlideOutWarning(tl, timer)
      [] name = "FadeOut" -> FadeOutEvent(tl, timer)
      [] name = "FadeIn" -> FadeInEvent(tl, timer)
      [] name = "ScaleUp" -> ScaleUpEvent(tl, timer)
      [] name = "TransitionToScene" -> TransitionToSceneEvent(tl, timer)
      [] name = "RetryFunctions" -> RetryFunction(tl, timer)
      [] name = "SlideInBounce" -> SlideInBounce(tl, timer)
      [] name = "SlideInWobbly" -> SlideInWobbly(tl, timer)
      [] name = "SlideInCircular" -> SlideInCircular(tl, timer)
      [] name = "SlideInElastic" -> SlideInElastic(tl, timer)
      [] name = "SlideDiag" -> SlideDiag(tl, timer)
      [] name = "TextPopUp" -> TextPopup(tl, timer)
      [] name = "TextPopUpFlyOut" -> TextPopupFlyOut(tl, timer)
      [] name = "FadeOutTransitionToMenu" -> FadeOutThenTransitMenu(tl, timer)
      [] name = "SlowAbilityPrefab" -> SlowPrefabFunction(tl, timer)

\* ----------------------------------------------------------- tag storage
\* Per-entity tag storage of the Coordinator: HasTag and AddTag.
HasTag(tg, tag) == \E i \in DOMAIN tg : tg[i] = tag

AddTag(tg, tag) == Append(tg, tag)

Count(tg, tag) == Cardinality({i \in DOMAIN tg : tg[i] = tag})

\* ------------------------------------------------- TimelineSystem::Update
NoCalls == <<>>

Outcome(tl, path, calls) == [tl |-> tl, path |-> path, calls |-> calls]

\* if (!engineState.IsPlay()) return;
SkipUpdateAlwaysRuns(p) == FALSE

SkipUpdateInverted(p) == p

SkipUpdate(p) == ~p

\* if (!engineState.layerVisibility[layerComponent.layerID]) continue;
LayerHiddenNever(vis, layer) == FALSE

LayerHidden(vis, layer) == ~vis[layer]

\* if (!HasTag(entity, TimelineTag)) AddTag(entity, TimelineTag);
EnsureTagUnguarded(tg, tag) == AddTag(tg, tag)

EnsureTag(tg, tag) == IF ~HasTag(tg, tag) THEN AddTag(tg, tag) ELSE tg

\* if (!timeline.Active) continue;
SkipInactiveNever(tl) == FALSE

SkipInactive(tl) == ~tl.Active

\* if (timeline.TransitionIn) timeline.TransitionIn(entity, timeline.InternalTimer);
Invoke(name, phase, tl) ==
    IF name = NoCallback
    THEN [tl |-> tl, calls |-> NoCalls]
    ELSE LET r == Call(name, tl, tl.InternalTimer)
         IN [tl |-> r.tl,
             calls |-> <<[phase |-> phase, name |-> name,
                          timer |-> tl.InternalTimer, fx |-> r.fx]>>]

\* if (timeline.DelayAccumulated < timeline.TransitionInDelay) continue;
InDelayPendingNever(tl) == FALSE

InDelayPending(tl) == tl.DelayAccumulated < tl.TransitionInDelay

\* if (timeline.DelayOutAccumulated < timeline.TransitionOutDelay) continue;
OutDelayPending(tl) == tl.DelayOutAccumulated < tl.TransitionOutDelay

\* if (timeline.InternalTimer >= timeline.TransitionDuration)
PhaseComplete(tl) == tl.InternalTimer >= tl.TransitionDuration

\* IsTransitioningIn = false; InternalTimer = 0.0f; DelayAccumulated = 0.0f;
FinishIn(tl) ==
    [tl EXCEPT !.IsTransitioningIn = FALSE, !.InternalTimer = 0, !.DelayAccumulated = 0]

\* timeline.Active = false;
FinishOutRestarts(tl) ==
    [tl EXCEPT !.Active = FALSE, !.IsTransitioningIn = TRUE, !.InternalTimer = 0,
               !.DelayOutAccumulated = 0]

FinishOutStaysActive(tl) == tl

FinishOut(tl) == [tl EXCEPT !.Active = FALSE]

\* The branch if (timeline.IsTransitioningIn) { ... }
HandleTransitionIn(tl, dt) ==
    LET waiting == [tl EXCEPT !.DelayAccumulated = @ + dt]
    IN IF InDelayPending(waiting)
       THEN Outcome(waiting, "WaitingIn", NoCalls)
       ELSE LET started == [waiting EXCEPT !.InternalTimer = @ + dt]
                r == Invoke(started.TransitionIn, "In", started)
            IN IF PhaseComplete(r.tl)
               THEN Outcome(FinishIn(r.tl), "InComplete", r.calls)
               ELSE Outcome(r.tl, "TransitioningIn", r.calls)

\* The branch else { ... }
HandleTransitionOut(tl, dt) ==
    LET waiting == [tl EXCEPT !.DelayOutAccumulated = @ + dt]
    IN IF OutDelayPending(waiting)
       THEN Outcome(waiting, "WaitingOut", NoCalls)
       ELSE LET started == [waiting EXCEPT !.InternalTimer = @ + dt]
                r == Invoke(started.TransitionOut, "Out", started)
            IN IF PhaseComplete(r.tl)
               THEN Outcome(FinishOut(r.tl), "OutComplete", r.calls)
               ELSE Outcome(r.tl, "TransitioningOut", r.calls)

\* if (timeline.IsTransitioningIn) ... else ...
RunPhaseFallsThrough(tl, dt) ==
    IF tl.IsTransitioningIn
    THEN LET a == HandleTransitionIn(tl, dt)
         IN IF a.tl.IsTransitioningIn
            THEN a
            ELSE LET b == HandleTransitionOut(a.tl, dt)
                 IN Outcome(b.tl, b.path, a.calls \o b.calls)
    ELSE HandleTransitionOut(tl, dt)

RunPhase(tl, dt) ==
    IF tl.IsTransitioningIn THEN HandleTransitionIn(tl, dt) ELSE HandleTransitionOut(tl, dt)

\* One iteration of the loop over mEntities: what it leaves of the entity's
\* TimelineComponent and tags, the path it took and the callbacks it invoked.
UpdateEntity(tl, tg, hidden, dt) ==
    IF hidden
    THEN [tl |-> tl, tags |-> tg, path |-> "Hidden", calls |-> NoCalls]
    ELSE LET tagged == EnsureTag(tg, tl.TimelineTag)
         IN IF SkipInactive(tl)
            THEN [tl |-> tl, tags |-> tagged, path |-> "Inactive", calls |-> NoCalls]
            ELSE LET r == RunPhase(tl, dt)
                 IN [tl |-> r.tl, tags |-> tagged, path |-> r.path, calls |-> r.calls]

\* ------------------------------------------- TimelineSystem::ToggleActive
\* if (timeline.TimelineTag == TimelineTag) timeline.Active = true;
ToggleEntityFlips(tl, tag) ==
    IF tl.TimelineTag = tag THEN [tl EXCEPT !.Active = ~tl.Active] ELSE tl

ToggleEntity(tl, tag) ==
    IF tl.TimelineTag = tag THEN [tl EXCEPT !.Active = TRUE] ELSE tl

\* bool activated: whether the loop matched any entity (else the warning is printed)
Activated(members, tls, tag) == \E e \in members : tls[e].TimelineTag = tag

\* ------------------------------------------------------ component registry
\* The component kinds the systems' Initialize functions register, and the kinds
\* the engine's other systems register (taken in a fixed order).
GraphicsKinds == <<"TransformComponent", "RenderComponent", "LayerComponent", "TextComponent">>
OtherKinds ==
    << "Other1", "Other2", "Other3", "Other4", "Other5", "Other6",
       "Other7", "Other8", "Other9", "Other10", "Other11", "Other12",
       "Other13", "Other14", "Other15", "Other16", "Other17", "Other18",
       "Other19", "Other20", "Other21", "Other22", "Other23", "Other24",
       "Other25", "Other26", "Other27", "Other28", "Other29", "Other30",
       "Other31", "Other32" >>

EmptyFunction == [x \in {} |-> x]

\* The Coordinator before any Initialize has run: nothing registered, every id free.
FreshCoordinator ==
    [ mComponentTypes |-> EmptyFunction,       \* component kind -> bit index
      mNextComponentType |-> 0,
      mComponentArrays |-> EmptyFunction,      \* component kind -> (entity -> value)
      mSystemSignatures |-> EmptyFunction,     \* system -> required bits
      mSystems |-> EmptyFunction,              \* system -> member set
      mSignatures |-> [e \in 1 .. MaxEntities |-> {}],
      mAvailableEntities |-> [i \in 1 .. MaxEntities |-> i],
      mLivingEntityCount |-> 0,
      aborted |-> FALSE ]

Done(c) == [ecs |-> c, error |-> "none"]

Failed(c, error) == [ecs |-> c, error |-> error]

\* A configuration error is fatal at startup: the engine aborts initialization.
Fatal(c) == [ecs |-> [c EXCEPT !.aborted = TRUE], error |-> "ConfigurationError"]

IsRegistered(c, T) == T \in DOMAIN c.mComponentTypes

\* RegisterComponent<T>(): the next free bit index goes to T.
RegisterComponentReusesBit(c, T) ==
    IF c.mNextComponentType >= MaxComponents
    THEN Fatal(c)
    ELSE Done([c EXCEPT
                 !.mComponentTypes = (T :> c.mNextComponentType) @@ @,
                 !.mComponentArrays = (T :> EmptyFunction) @@ @,
                 !.mNextComponentType = IF IsRegistered(c, T) THEN @ ELSE @ + 1])

RegisterComponent(c, T) ==
    IF IsRegistered(c, T) \/ c.mNextComponentType >= MaxComponents
    THEN Fatal(c)
    ELSE Done([c EXCEPT
                 !.mComponentTypes = (T :> c.mNextComponentType) @@ @,
                 !.mComponentArrays = (T :> EmptyFunction) @@ @,
                 !.mNextComponentType = @ + 1])

\* GetComponentType<T>()
GetComponentType(c, T) == c.mComponentTypes[T]

\* SetSystemSignature<SystemType>(signature)
SetSystemSignature(c, system, signature) ==
    [c EXCEPT !.mSystemSignatures = (system :> signature) @@ @,
              !.mSystems = IF system \in DOMAIN @ THEN @ ELSE (system :> {}) @@ @]

\* The calls of a list of RegisterComponent, stopped by the first that fails.
RECURSIVE RegisterAll(_, _)
RegisterAll(c, kinds) ==
    IF kinds = <<>> THEN Done(c)
    ELSE LET r == RegisterComponent(c, Head(kinds))
         IN IF r.error # "none" THEN r ELSE RegisterAll(r.ecs, Tail(kinds))

\* A system's Initialize: register its component kinds, then declare the
\* signature made of the bit of the kind it requires.
InitializeSystem(c, system, kinds, required) ==
    LET r == RegisterAll(c, kinds)
    IN IF r.error # "none" THEN r
       ELSE Done(SetSystemSignature(r.ecs, system, {GetComponentType(r.ecs, required)}))

TimelineSystemInitialize(c) ==
    InitializeSystem(c, "TimelineSystem", <<"TimelineComponent">>, "TimelineComponent")

AnimationSystemInitialize(c) ==
    InitializeSystem(c, "AnimationSystem", <<"AnimationComponent">>, "AnimationComponent")

GraphicsInitialize(c) ==
    InitializeSystem(c, "Graphics", GraphicsKinds, "RenderComponent")

\* ---------------------------------------------------------- entity manager
NoEntity == 0

EntityIds == 1 .. MaxEntities

Range(q) == {q[i] : i \in DOMAIN q}

\* An id is live from the CreateEntity that returned it to its DestroyEntity.
IsEntityValid(c, e) == e \in (1 .. MaxEntities) \ Range(c.mAvailableEntities)

GetEntities(c) == {e \in 1 .. MaxEntities : IsEntityValid(c, e)}

GetEntitySignature(c, e) == c.mSignatures[e]

\* CreateEntity(): a fresh or recycled id with an all-zero signature; fails only
\* when the maximum number of live entities is reached.
CreateEntityKeepsId(c) ==
    IF c.mLivingEntityCount >= MaxEntities
    THEN [ecs |-> c, error |-> "ResourceExhausted", entity |-> NoEntity]
    ELSE LET id == Head(c.mAvailableEntities)
         IN [ecs |-> [c EXCEPT !.mLivingEntityCount = @ + 1,
                               !.mSignatures[id] = {}],
             error |-> "none", entity |-> id]

CreateEntity(c) ==
    IF c.mLivingEntityCount >= MaxEntities
    THEN [ecs |-> c, error |-> "ResourceExhausted", entity |-> NoEntity]
    ELSE LET id == Head(c.mAvailableEntities)
         IN [ecs |-> [c EXCEPT !.mAvailableEntities = Tail(@),
                               !.mLivingEntityCount = @ + 1,
                               !.mSignatures[id] = {}],
             error |-> "none", entity |-> id]

\* ------------------------------------------- system registry and dispatcher
Without(f, e) == [x \in DOMAIN f \ {e} |-> f[x]]

\* The signature-change notification: every system takes the entity in when its
\* signature holds all the bits the system requires, and drops it otherwise.
EntitySignatureChangedAnyBit(c, e) ==
    [c EXCEPT !.mSystems =
        [s \in DOMAIN @ |->
            IF c.mSystemSignatures[s] \cap c.mSignatures[e] # {}
            THEN @[s] \cup {e} ELSE @[s] \ {e}]]

EntitySignatureChanged(c, e) ==
    [c EXCEPT !.mSystems =
        [s \in DOMAIN @ |->
            IF c.mSystemSignatures[s] \subseteq c.mSignatures[e]
            THEN @[s] \cup {e} ELSE @[s] \ {e}]]

\* Every system drops the entity from its member set.
EntityDestroyed(c, e) ==
    [c EXCEPT !.mSystems = [s \in DOMAIN @ |-> @[s] \ {e}],
              !.mComponentArrays = [T \in DOMAIN @ |-> Without(@[T], e)]]

\* DestroyEntity(entity): signature cleared, components destroyed, systems
\* notified, id back in the free pool; on an id that is not live an error that
\* leaves the state as it is.
DestroyEntityUnguarded(c, e) ==
    Done([EntityDestroyed(c, e) EXCEPT !.mSignatures[e] = {},
                                       !.mAvailableEntities = Append(@, e),
                                       !.mLivingEntityCount = @ - 1])

DestroyEntityKeepsMembers(c, e) ==
    IF ~IsEntityValid(c, e)
    THEN Failed(c, "PreconditionViolation")
    ELSE Done([c EXCEPT !.mSignatures[e] = {},
                        !.mAvailableEntities = Append(@, e),
                        !.mLivingEntityCount = @ - 1])

DestroyEntity(c, e) ==
    IF ~IsEntityValid(c, e)
    THEN Failed(c, "PreconditionViolation")
    ELSE Done([EntityDestroyed(c, e) EXCEPT !.mSignatures[e] = {},
                                            !.mAvailableEntities = Append(@, e),
                                            !.mLivingEntityCount = @ - 1])

\* ------------------------------------------------------------- components
\* HasComponent<T>(entity): the signature-bit test.
HasComponent(c, T, e) == GetComponentType(c, T) \in c.mSignatures[e]

\* GetComponent<T>(entity): the value stored at the entity's slot.
GetComponent(c, T, e) == c.mComponentArrays[T][e]

\* AddComponent<T>(entity, value): store, set the bit, notify.
AddComponentNoBit(c, T, e, v) ==
    EntitySignatureChanged(
        [c EXCEPT !.mComponentArrays[T] = (e :> v) @@ @], e)

AddComponent(c, T, e, v) ==
    EntitySignatureChanged(
        [c EXCEPT !.mComponentArrays[T] = (e :> v) @@ @,
                  !.mSignatures[e] = @ \cup {GetComponentType(c, T)}], e)

\* RemoveComponent<T>(entity): clear the bit, destroy the value, notify.
RemoveComponent(c, T, e) ==
    EntitySignatureChanged(
        [c EXCEPT !.mComponentArrays[T] = Without(@, e),
                  !.mSignatures[e] = @ \ {GetComponentType(c, T)}], e)

\* ---------------------------------------------------------------- states
Untouched(members) == [e \in members |-> [path |-> "None", calls |-> NoCalls]]

\* Framework::engineState.SetPaused(false), where a callback of the frame called it.
ClearsPause(calls) == \E i \in DOMAIN calls : "SetPaused(false)" \in calls[i].fx

\* The cues GlobalAudio.UE_PlaySound was asked for, counted from the start of
\* the activation: the load of an active timeline or the ToggleActive that set
\* Active on an inactive one.
NoCues == [TimeSlow |-> 0, TimeGoBack |-> 0]

Played(calls, cue) == Cardinality({i \in DOMAIN calls : cue \in calls[i].fx})

Heard(old, calls) ==
    [TimeSlow |-> old.TimeSlow + Played(calls, "PlaySound(TimeSlow)"),
     TimeGoBack |-> old.TimeGoBack + Played(calls, "PlaySound(TimeGoBack)")]

\* A TimelineComponent as the scene loader delivers it: timers at rest.
Loaded(active, in, inDelay, outDelay, duration, cbIn, cbOut, tag) ==
    [ Active |-> active, IsTransitioningIn |-> in,
      InternalTimer |-> 0, DelayAccumulated |-> 0, DelayOutAccumulated |-> 0,
      Variable_1 |-> 0, Variable_2 |-> 0,
      TransitionInDelay |-> inDelay, TransitionOutDelay |-> outDelay,
      TransitionDuration |-> duration,
      TransitionIn |-> cbIn, TransitionOut |-> cbOut, TimelineTag |-> tag ]

\* The bindings of a scene: every pairing of the ways a callback writes the
\* timeline's fields, every registered callback on either side, and none at all.
Bindings ==
    (ClassReps \X ClassReps)
        \cup (Registered \X {NoCallback}) \cup ({NoCallback} \X Registered)
        \cup {<<NoCallback, NoCallback>>}

LoadedTimelines(tagSet) ==
    { Loaded(a, i, d1, d2, du, b[1], b[2], t) :
        a \in BOOLEAN, i \in BOOLEAN, d1 \in Delays, d2 \in Delays,
        du \in Durations, b \in Bindings, t \in tagSet }

\* A scene of two timelines, with the same tag or with different tags.
FirstOfTwo ==
    { Loaded(a, TRUE, 1000, 0, 1000, cb, cb, t) :
        a \in BOOLEAN, cb \in {NoCallback, "SlideIn"}, t \in TimelineTags }

SecondOfTwo ==
    { Loaded(a, TRUE, 0, 0, 1000, NoCallback, NoCallback, "A") : a \in BOOLEAN }

Init ==
    /\ play \in BOOLEAN
    /\ layerVisibility = [l \in Layers |-> TRUE]
    /\ \/ /\ mEntities = {1}
          /\ timeline \in [{1} -> LoadedTimelines({"A"})]
          /\ tags \in [{1} -> {<<>>, <<"A">>}]
       \/ /\ mEntities = {1, 2}
          /\ \E t1 \in FirstOfTwo, t2 \in SecondOfTwo :
                timeline = (1 :> t1) @@ (2 :> t2)
          /\ tags = [e \in {1, 2} |-> <<>>]
    /\ layerID = [e \in mEntities |-> IF e = 1 THEN "UI" ELSE "Background"]
    /\ ecs = FreshCoordinator
    /\ paused = FALSE
    /\ selectedEntity = NoEntity
    /\ isPropertiesWindowOpen = FALSE
    /\ sortedEntities = <<>>
    /\ openPopup = NoPopup
    /\ cues = [e \in mEntities |-> NoCues]
    /\ last = [op |-> "Load", dt |-> 0, activated |-> FALSE]
    /\ trace = Untouched(mEntities)

\* --------------------------------------------------------------- actions
WithinBound(tl, dt) ==
    /\ tl.IsTransitioningIn => tl.DelayAccumulated + dt <= MaxTime
    /\ ~tl.IsTransitioningIn => tl.DelayOutAccumulated + dt <= MaxTime
    /\ tl.InternalTimer + dt + FrameStep <= MaxTime

\* void TimelineSystem::Update(float deltaTime)
Update(dt) ==
    /\ \A e \in mEntities : WithinBound(timeline[e], dt)
    /\ LET r == [e \in mEntities |->
                    IF SkipUpdate(play)
                    THEN [tl |-> timeline[e], tags |-> tags[e],
                          path |-> "NotPlaying", calls |-> NoCalls]
                    ELSE UpdateEntity(timeline[e], tags[e],
                                      LayerHidden(layerVisibility, layerID[e]), dt)]
       IN /\ timeline' = [e \in mEntities |-> r[e].tl]
          /\ tags' = [e \in mEntities |-> r[e].tags]
          /\ trace' = [e \in mEntities |-> [path |-> r[e].path, calls |-> r[e].calls]]
          /\ paused' = IF \E e \in mEntities : ClearsPause(r[e].calls) THEN FALSE ELSE paused
          /\ cues' = [e \in mEntities |-> Heard(cues[e], r[e].calls)]
    /\ last' = [op |-> "Update", dt |-> dt, activated |-> FALSE]
    /\ UNCHANGED <<play, layerVisibility, mEntities, layerID, ecs, editorVars>>

\* void TimelineSystem::ToggleActive(std::string TimelineTag)
ToggleActive(tag) ==
    /\ timeline' = [e \in mEntities |-> ToggleEntity(timeline[e], tag)]
    /\ last' = [op |-> "ToggleActive", dt |-> 0,
                activated |-> Activated(mEntities, timeline, tag)]
    /\ trace' = Untouched(mEntities)
    /\ cues' = [e \in mEntities |->
                  IF ~timeline[e].Active /\ ToggleEntity(timeline[e], tag).Active
                  THEN NoCues ELSE cues[e]]
    /\ UNCHANGED <<play, layerVisibility, mEntities, layerID, tags, ecs, paused, editorVars>>

\* The editor's Play button: engineState.SetPlay(true)
Play ==
    /\ ~play
    /\ play' = TRUE
    /\ last' = [op |-> "Play", dt |-> 0, activated |-> FALSE]
    /\ trace' = Untouched(mEntities)
    /\ UNCHANGED <<layerVisibility, mEntities, layerID, timeline, tags, ecs, paused,
                   editorVars, cues>>

\* The editor's Stop button: engineState.SetPlay(false), then the scene is cleared
\* and loaded again: every TimelineComponent is as the loader delivers it, with
\* the Active and IsTransitioningIn the scene file holds.
Stop ==
    /\ play
    /\ play' = FALSE
    /\ \E a \in [mEntities -> BOOLEAN], i \in [mEntities -> BOOLEAN] :
          timeline' = [e \in mEntities |->
                          Loaded(a[e], i[e], timeline[e].TransitionInDelay,
                                 timeline[e].TransitionOutDelay,
                                 timeline[e].TransitionDuration,
                                 timeline[e].TransitionIn, timeline[e].TransitionOut,
                                 timeline[e].TimelineTag)]
    /\ tags' = [e \in mEntities |-> <<>>]
    /\ cues' = [e \in mEntities |-> NoCues]
    /\ last' = [op |-> "Stop", dt |-> 0, activated |-> FALSE]
    /\ trace' = Untouched(mEntities)
    /\ UNCHANGED <<layerVisibility, mEntities, layerID, ecs, paused, editorVars>>

\* The editor's "Disable Layer" / "Enable Layer" button
ToggleLayer(layer) ==
    /\ \E e \in mEntities : layerID[e] = layer
    /\ layerVisibility' = [layerVisibility EXCEPT ![layer] = ~@]
    /\ last' = [op |-> "ToggleLayer", dt |-> 0, activated |-> FALSE]
    /\ trace' = Untouched(mEntities)
    /\ UNCHANGED <<play, mEntities, layerID, timeline, tags, ecs, paused, editorVars, cues>>

Next ==
    \/ \E dt \in DeltaTimes : Update(dt)
    \/ \E tag \in ToggleTags : ToggleActive(tag)
    \/ Play
    \/ Stop
    \/ \E layer \in Layers : ToggleLayer(layer)

Spec == Init /\ [][Next]_vars

\* ------------------------------------------------- the Coordinator at work
\* The kinds the calls below add and remove, and the values they store.
EcsKinds == {"RenderComponent", "TextComponent", "TimelineComponent"}
ComponentValues(T) == IF T = "TimelineComponent" THEN {"v0", "v1"} ELSE {"v0"}

\* The engine after start-up: the systems initialized in the order their bit
\* indices show, and one more system whose required signature overlaps Graphics'.
Started ==
    LET a == AnimationSystemInitialize(FreshCoordinator).ecs
        g == GraphicsInitialize(a).ecs
        t == TimelineSystemInitialize(g).ecs
    IN SetSystemSignature(t, "OverlappingSystem",
                          { GetComponentType(t, "RenderComponent"),
                            GetComponentType(t, "TextComponent") })

\* The timeline's variables where no scene is loaded.
NoScene ==
    /\ play = FALSE
    /\ layerVisibility = [l \in Layers |-> TRUE]
    /\ mEntities = {}
    /\ layerID = EmptyFunction
    /\ timeline = EmptyFunction
    /\ tags = EmptyFunction
    /\ trace = EmptyFunction
    /\ paused = FALSE
    /\ selectedEntity = NoEntity
    /\ isPropertiesWindowOpen = FALSE
    /\ sortedEntities = <<>>
    /\ openPopup = NoPopup
    /\ cues = EmptyFunction

sceneVars ==
    <<play, layerVisibility, mEntities, layerID, timeline, tags, trace, paused,
      editorVars, cues>>

Called(op, e, T, v, error) ==
    [op |-> op, entity |-> e, kind |-> T, value |-> v, error |-> error]

EcsInit ==
    /\ NoScene
    /\ ecs = Started
    /\ last = Called("Initialize", NoEntity, "", "", "none")

DoCreateEntity ==
    /\ LET r == CreateEntity(ecs)
       IN /\ ecs' = r.ecs
          /\ last' = Called("CreateEntity", r.entity, "", "", r.error)
    /\ UNCHANGED sceneVars

\* The editor's "Create Entity" button: a new entity with the four default
\* components; a CreateEntity that fails ends the handler.
CreateEntityButtonNoText ==
    /\ LET r == CreateEntity(ecs)
          c1 == AddComponent(r.ecs, "TransformComponent", r.entity, "v0")
          c2 == AddComponent(c1, "RenderComponent", r.entity, "v0")
          c3 == AddComponent(c2, "LayerComponent", r.entity, "v0")
       IN /\ ecs' = IF r.error = "none" THEN c3 ELSE r.ecs
          /\ last' = Called("CreateEntityButton", r.entity, "", "", r.error)
    /\ UNCHANGED sceneVars

CreateEntityButton ==
    /\ LET r == CreateEntity(ecs)
          c1 == AddComponent(r.ecs, "TransformComponent", r.entity, "v0")
          c2 == AddComponent(c1, "RenderComponent", r.entity, "v0")
          c3 == AddComponent(c2, "LayerComponent", r.entity, "v0")
          c4 == AddComponent(c3, "TextComponent", r.entity, "v0")
       IN /\ ecs' = IF r.error = "none" THEN c4 ELSE r.ecs
          /\ last' = Called("CreateEntityButton", r.entity, "", "", r.error)
    /\ UNCHANGED sceneVars

\* The editor's "Delete Entity" button, confirmed: the selection is any id the
\* list has shown, or none.
DeleteEntityButton(selected) ==
    /\ selected # NoEntity
    /\ LET r == DestroyEntity(ecs, selected)
       IN /\ ecs' = r.ecs
          /\ last' = Called("DestroyEntity", selected, "", "", r.error)
    /\ UNCHANGED sceneVars

DoAddComponent(T, e, v) ==
    /\ IsEntityValid(ecs, e)
    /\ ecs' = AddComponent(ecs, T, e, v)
    /\ last' = Called("AddComponent", e, T, v, "none")
    /\ UNCHANGED sceneVars

DoRemoveComponent(T, e) ==
    /\ IsEntityValid(ecs, e)
    /\ ecs' = RemoveComponent(ecs, T, e)
    /\ last' = Called("RemoveComponent", e, T, "", "none")
    /\ UNCHANGED sceneVars

EcsNext ==
    \/ DoCreateEntity
    \/ CreateEntityButton
    \/ \E e \in 1 .. MaxEntities : DeleteEntityButton(e)
    \/ \E T \in EcsKinds, e \in 1 .. MaxEntities :
          \E v \in ComponentValues(T) : DoAddComponent(T, e, v)
    \/ \E T \in EcsKinds, e \in 1 .. MaxEntities : DoRemoveComponent(T, e)

EcsSpec == EcsInit /\ [][EcsNext]_vars

\* ------------------------------------------------------- engine start-up
\* The systems' Initialize functions run in any order, any of them possibly
\* again, between the registrations the other systems make.
RegistryInit ==
    /\ NoScene
    /\ ecs = FreshCoordinator
    /\ last = Called("Start", NoEntity, <<>>, "", "none")

RunInitialize(name, kinds, r) ==
    /\ ~ecs.aborted
    /\ ecs' = r.ecs
    /\ last' = Called(name, NoEntity, kinds, "", r.error)
    /\ UNCHANGED sceneVars

RunTimelineSystemInitialize ==
    RunInitialize("TimelineSystem::Initialize", <<"TimelineComponent">>,
                  TimelineSystemInitialize(ecs))

RunAnimationSystemInitialize ==
    RunInitialize("AnimationSystem::Initialize", <<"AnimationComponent">>,
                  AnimationSystemInitialize(ecs))

RunGraphicsInitialize ==
    RunInitialize("Graphics::Initialize", GraphicsKinds, GraphicsInitialize(ecs))

\* Another system's Initialize registers its component kinds: the next
\* OtherBatch of OtherKinds that are not registered yet.
RegisterOther ==
    \E i \in DOMAIN OtherKinds :
        /\ ~IsRegistered(ecs, OtherKinds[i])
        /\ \A j \in 1 .. i - 1 : IsRegistered(ecs, OtherKinds[j])
        /\ LET n == IF i + OtherBatch - 1 <= Len(OtherKinds)
                    THEN i + OtherBatch - 1 ELSE Len(OtherKinds)
               kinds == SubSeq(OtherKinds, i, n)
           IN RunInitialize("RegisterComponent", kinds, RegisterAll(ecs, kinds))

RegistryNext ==
    \/ RunTimelineSystemInitialize
    \/ RunAnimationSystemInitialize
    \/ RunGraphicsInitialize
    \/ RegisterOther

RegistrySpec == RegistryInit /\ [][RegistryNext]_vars

\* ------------------------------------------------ a scene that comes and goes
\* The TimelineComponent array has a slot for every id; a slot keeps what was
\* last stored in it when its entity is destroyed, and holds TimelineComponent{}
\* before anything is stored.
DefaultTimeline == Loaded(FALSE, TRUE, 0, 0, 0, NoCallback, NoCallback, "")

\* The timelines the scene loader and the editor deliver, and the one of the
\* prefab the callbacks load.
SceneTimelines ==
    { Loaded(TRUE, TRUE, 0, 0, 2000, cb, NoCallback, "A") :
        cb \in {NoCallback, "SlideOutWarning"} }

PrefabTimeline == Loaded(TRUE, TRUE, 0, 0, 2000, NoCallback, NoCallback, "Boss")

SceneDeltaTimes == {1000}

TimelineMembers(c) == c.mSystems["TimelineSystem"]

\* The loader's work for one entity: a new entity with a TransformComponent, a
\* LayerComponent and the TimelineComponent tl. Nothing is made when no id is free.
LoadTimelineEntity(st, tl) ==
    LET r == CreateEntity(st.ecs)
        c1 == AddComponent(r.ecs, "TransformComponent", r.entity, "v0")
        c2 == AddComponent(c1, "LayerComponent", r.entity, "v0")
        c3 == AddComponent(c2, "TimelineComponent", r.entity, "v0")
    IN IF r.error # "none" THEN st
       ELSE [st EXCEPT !.ecs = c3,
                       !.timeline[r.entity] = tl,
                       !.tags[r.entity] = <<>>,
                       !.cues[r.entity] = NoCues,
                       !.layerID[r.entity] = "UI"]

\* GlobalAssetManager.UE_LoadPrefab("BossBar.json")
UE_LoadPrefab(st) == LoadTimelineEntity(st, PrefabTimeline)

LoadsPrefab(calls) == \E i \in DOMAIN calls : "LoadPrefab" \in calls[i].fx

Min(S) == CHOOSE x \in S : \A y \in S : x <= y

\* for (auto const& entity : mEntities) { ... }: the loop walks the member set
\* itself, in the order of the ids, so a member a callback adds behind the
\* cursor is still to come.
RECURSIVE UpdateLoop(_, _, _)
UpdateLoop(st, cursor, dt) ==
    LET rest == {e \in TimelineMembers(st.ecs) : e > cursor}
    IN IF rest = {} THEN st
       ELSE LET e == Min(rest)
                r == UpdateEntity(st.timeline[e], st.tags[e],
                                  LayerHidden(st.vis, st.layerID[e]), dt)
                st1 == [st EXCEPT !.timeline[e] = r.tl,
                                  !.tags[e] = r.tags,
                                  !.paused = IF ClearsPause(r.calls) THEN FALSE ELSE @,
                                  !.cues[e] = Heard(@, r.calls),
                                  !.trace[e] = [path |-> r.path, calls |-> r.calls]]
                st2 == IF LoadsPrefab(r.calls) THEN UE_LoadPrefab(st1) ELSE st1
            IN UpdateLoop(st2, e, dt)

SceneState ==
    [ecs |-> ecs, timeline |-> timeline, tags |-> tags, layerID |-> layerID,
     vis |-> layerVisibility, paused |-> paused, cues |-> cues,
     trace |-> Untouched(1 .. MaxEntities)]

Becomes(st) ==
    /\ ecs' = st.ecs
    /\ mEntities' = TimelineMembers(st.ecs)
    /\ timeline' = st.timeline
    /\ tags' = st.tags
    /\ layerID' = st.layerID
    /\ trace' = st.trace
    /\ paused' = st.paused
    /\ cues' = st.cues
    /\ UNCHANGED <<play, layerVisibility, editorVars>>

Did(op, dt, e, activated) == [op |-> op, dt |-> dt, entity |-> e, activated |-> activated]

SceneInit ==
    /\ play = TRUE
    /\ layerVisibility = [l \in Layers |-> TRUE]
    /\ ecs = Started
    /\ mEntities = {}
    /\ timeline = [e \in 1 .. MaxEntities |-> DefaultTimeline]
    /\ tags = [e \in 1 .. MaxEntities |-> <<>>]
    /\ layerID = [e \in 1 .. MaxEntities |-> "UI"]
    /\ trace = Untouched(1 .. MaxEntities)
    /\ paused = FALSE
    /\ selectedEntity = NoEntity
    /\ isPropertiesWindowOpen = FALSE
    /\ sortedEntities = <<>>
    /\ openPopup = NoPopup
    /\ cues = [e \in 1 .. MaxEntities |-> NoCues]
    /\ last = Did("Load", 0, NoEntity, FALSE)

\* The scene loader, or the editor's "Create Entity" and "Add Timeline Component".
SceneLoadEntity(tl) ==
    /\ ecs.mLivingEntityCount < MaxEntities
    /\ Becomes(LoadTimelineEntity(SceneState, tl))
    /\ last' = Did("LoadEntity", 0, Head(ecs.mAvailableEntities), FALSE)

\* The editor's "Delete Entity" button on a scene entity.
SceneDeleteEntity(selected) ==
    /\ Becomes([SceneState EXCEPT !.ecs = DestroyEntity(ecs, selected).ecs])
    /\ last' = Did("DestroyEntity", 0, selected, IsEntityValid(ecs, selected))

\* void TimelineSystem::Update(float deltaTime), in play mode
SceneUpdate(dt) ==
    /\ \A e \in mEntities : WithinBound(timeline[e], dt)
    /\ Becomes(IF SkipUpdate(play) THEN SceneState ELSE UpdateLoop(SceneState, NoEntity, dt))
    /\ last' = Did("Update", dt, NoEntity, FALSE)

\* void TimelineSystem::ToggleActive(std::string TimelineTag)
SceneToggleActive(tag) ==
    /\ Becomes([SceneState EXCEPT
                  !.timeline = [e \in DOMAIN @ |->
                                   IF e \in mEntities THEN ToggleEntity(@[e], tag) ELSE @[e]],
                  !.cues = [e \in DOMAIN @ |->
                               IF /\ e \in mEntities /\ ~timeline[e].Active
                                  /\ ToggleEntity(timeline[e], tag).Active
                               THEN NoCues ELSE @[e]]])
    /\ last' = Did("ToggleActive", 0, NoEntity, Activated(mEntities, timeline, tag))

SceneNext ==
    \/ \E tl \in SceneTimelines : SceneLoadEntity(tl)
    \/ \E e \in 1 .. MaxEntities : SceneDeleteEntity(e)
    \/ \E dt \in SceneDeltaTimes : SceneUpdate(dt)
    \/ \E tag \in ToggleTags : SceneToggleActive(tag)

SceneSpec == SceneInit /\ [][SceneNext]_vars

\* ------------------------------------------------------ the Animation System
\* GlobalAssetManager.GetAnimationDataMap(): rows, columns and speed (frames a
\* second) of the sheet of each sprite.
Sheet(rows, cols, animationSpeed) ==
    [rows |-> rows, cols |-> cols, animationSpeed |-> animationSpeed]

animations ==
    ("BossIdle" :> Sheet(1, 4, 2)) @@ ("BossDamage" :> Sheet(2, 2, 10))
        @@ ("PoisonDamagedIdleSprite" :> Sheet(1, 3, 4))
        @@ ("McIdleSprite" :> Sheet(1, 2, 2)) @@ ("McDamagedSprite" :> Sheet(1, 3, 60))
        @@ ("McDieSprite" :> Sheet(1, 5, 30)) @@ ("dead" :> Sheet(1, 1, 1))

\* (int)(animationTimePlay * animationSpeed), the time being in milliseconds.
FrameIndex(animationTimePlay, animationSpeed) ==
    (animationTimePlay * animationSpeed) \div OneSecond

\* void AnimationSystem::UE_CollidedShortAnimation(render, collision, animation,
\* deltaTime, rows, cols, animationTime, animationPlayed, defaultAnimation)
UE_CollidedShortAnimation(render, collision, animation, deltaTime, animationPlayed, defaultAnimation) ==
    LET hit == IF collision.collided
               THEN [render EXCEPT !.textureID = animationPlayed] ELSE render
        timePlay == animation.animationTimePlay + deltaTime
        frame == FrameIndex(timePlay, animation.animationSpeed)
                    % (animation.rows * animation.cols)
    IN IF hit.textureID = animationPlayed
       THEN IF frame >= (animation.rows * animation.cols) - 1
            THEN [render |-> [hit EXCEPT !.textureID = defaultAnimation],
                  animation |-> [animation EXCEPT !.currentFrame = 0,
                                                  !.animationTimePlay = 0]]
            ELSE [render |-> hit,
                  animation |-> [animation EXCEPT !.currentFrame = frame,
                                                  !.animationTimePlay = timePlay]]
       ELSE [render |-> hit, animation |-> animation]

\* One iteration of the loop of AnimationSystem::Update over its members.
AnimateEntity(c, e, deltaTime) ==
    IF ~HasComponent(c, "RenderComponent", e) THEN c
    ELSE LET render == GetComponent(c, "RenderComponent", e)
             sheet == animations[render.textureID]
             animation == [GetComponent(c, "AnimationComponent", e) EXCEPT
                             !.cols = sheet.cols, !.rows = sheet.rows,
                             !.animationSpeed = sheet.animationSpeed]
             start == [render |-> render, animation |-> animation]
             collision == GetComponent(c, "CollisionComponent", e)
             short(s, played, default) ==
                 UE_CollidedShortAnimation(s.render, collision, s.animation, deltaTime,
                                           played, default)
             enemy ==
                 IF ~HasComponent(c, "EnemyComponent", e) THEN start
                 ELSE LET type == GetComponent(c, "EnemyComponent", e).type
                          poison == IF type = "Poison"
                                    THEN short(start, "PoisonDamagedIdleSprite",
                                               "PoisonDamagedIdleSprite")
                                    ELSE start
                      IN IF type = "Boss" THEN short(poison, "BossDamage", "BossIdle")
                         ELSE poison
             player ==
                 IF ~HasComponent(c, "PlayerComponent", e) THEN enemy
                 ELSE LET stats == GetComponent(c, "PlayerComponent", e)
                      IN IF stats.type # "Player" THEN enemy
                         ELSE IF stats.health = 0
                              THEN short(enemy, "McDieSprite", "dead")
                              ELSE short(enemy, "McDamagedSprite", "McIdleSprite")
             done == IF HasComponent(c, "CollisionComponent", e) THEN player ELSE start
         IN [c EXCEPT !.mComponentArrays["RenderComponent"][e] = done.render,
                      !.mComponentArrays["AnimationComponent"][e] = done.animation]

RECURSIVE AnimateAll(_, _, _)
AnimateAll(c, members, deltaTime) ==
    IF members = {} THEN c
    ELSE LET e == Min(members)
         IN AnimateAll(AnimateEntity(c, e, deltaTime), members \ {e}, deltaTime)

\* if (engineState.IsPaused()) return;
AnimationPausedNever(p) == FALSE

AnimationPaused(p) == p

\* ------------------------------------------------- the pause flag and the systems
\* The engine with the component kinds of the collision and gameplay systems.
GameStarted ==
    RegisterAll(Started, <<"CollisionComponent", "EnemyComponent", "PlayerComponent">>).ecs

AnimationAtRest ==
    [rows |-> 0, cols |-> 0, animationSpeed |-> 0, animationTimePlay |-> 0,
     currentFrame |-> 0]

RECURSIVE AddComponents(_, _, _)
AddComponents(c, e, comps) ==
    IF comps = <<>> THEN c
    ELSE AddComponents(AddComponent(c, Head(comps)[1], e, Head(comps)[2]), e, Tail(comps))

\* An entity the loader delivers with a sprite and a collision box.
Animated(textureID) ==
    << <<"RenderComponent", [textureID |-> textureID]>>,
       <<"AnimationComponent", AnimationAtRest>>,
       <<"CollisionComponent", [collided |-> FALSE]>> >>

Boss == Animated("BossIdle") \o << <<"EnemyComponent", [type |-> "Boss"]>> >>

Poison ==
    Animated("PoisonDamagedIdleSprite") \o << <<"EnemyComponent", [type |-> "Poison"]>> >>

PlayerWith(health) ==
    Animated("McIdleSprite")
        \o << <<"PlayerComponent", [type |-> "Player", health |-> health]>> >>

\* The scene of one entity (id 1) with the components comps.
SceneOf(comps) ==
    LET r == CreateEntity(GameStarted)
    IN AddComponents(r.ecs, r.entity, comps)

AnimationMembers(c) == c.mSystems["AnimationSystem"]

timelineVars == <<mEntities, layerID, timeline, tags, cues>>

\* History of a frame: the operation, its deltaTime and the pause flag it found.
Frame(op, dt) == [op |-> op, dt |-> dt, activated |-> FALSE, paused |-> paused]

\* A boss whose timeline slides it in: the callbacks that clear the pause flag,
\* and two that do not.
PauseCallbacks ==
    { "SlideY", "SlideDiag", "SlideInWobbly", "SlideInCircular", "SlideIn",
      "SlideInBounce", "FadeOut", NoCallback }

PauseTimelines ==
    { Loaded(a, TRUE, d, 0, 1000, cb, NoCallback, "A") :
        a \in BOOLEAN, d \in Delays, cb \in PauseCallbacks }

PauseDeltaTimes == {500, 1000}

AnimationDeltaTimes == {250}

PauseInit ==
    /\ play = TRUE
    /\ paused \in BOOLEAN
    /\ layerVisibility = [l \in Layers |-> TRUE]
    /\ ecs = SceneOf(Boss \o << <<"TransformComponent", "v0">>, <<"LayerComponent", "v0">>,
                                 <<"TimelineComponent", "v0">> >>)
    /\ mEntities = {1}
    /\ timeline \in [{1} -> PauseTimelines]
    /\ tags = [e \in {1} |-> <<>>]
    /\ layerID = [e \in {1} |-> "UI"]
    /\ cues = [e \in {1} |-> NoCues]
    /\ selectedEntity = NoEntity
    /\ isPropertiesWindowOpen = FALSE
    /\ sortedEntities = <<>>
    /\ openPopup = NoPopup
    /\ last = Frame("Load", 0)
    /\ trace = Untouched(mEntities)

Least(a, b) == IF a <= b THEN a ELSE b

\* An accumulator that has passed MaxTime is kept at MaxTime: the code compares
\* the accumulators with a delay, a duration or one second, all of them smaller.
Saturated(tl) ==
    [tl EXCEPT !.DelayAccumulated = Least(@, MaxTime),
               !.DelayOutAccumulated = Least(@, MaxTime),
               !.InternalTimer = Least(@, MaxTime)]

\* void TimelineSystem::Update(float deltaTime), for frames without end
LiveUpdate(dt) ==
    /\ LET r == [e \in mEntities |->
                    IF SkipUpdate(play)
                    THEN [tl |-> timeline[e], tags |-> tags[e],
                          path |-> "NotPlaying", calls |-> NoCalls]
                    ELSE UpdateEntity(timeline[e], tags[e],
                                      LayerHidden(layerVisibility, layerID[e]), dt)]
       IN /\ timeline' = [e \in mEntities |-> Saturated(r[e].tl)]
          /\ tags' = [e \in mEntities |-> r[e].tags]
          /\ trace' = [e \in mEntities |-> [path |-> r[e].path, calls |-> r[e].calls]]
          /\ paused' = IF \E e \in mEntities : ClearsPause(r[e].calls) THEN FALSE ELSE paused
          /\ cues' = [e \in mEntities |-> Heard(cues[e], r[e].calls)]
    /\ last' = Frame("Update", dt)
    /\ UNCHANGED <<play, layerVisibility, mEntities, layerID, ecs, editorVars>>

\* The editor's Pause button, in the frame of Graphics::Update that finds it clicked
PauseButton ==
    /\ paused' = IF play THEN ~paused ELSE paused
    /\ last' = Frame("Graphics::Update", 0)
    /\ trace' = Untouched(mEntities)
    /\ UNCHANGED <<play, layerVisibility, ecs, editorVars, timelineVars>>

\* void AnimationSystem::Update(float deltaTime)
AnimationSystemUpdate(deltaTime) ==
    /\ \A e \in AnimationMembers(ecs) :
          GetComponent(ecs, "AnimationComponent", e).animationTimePlay + deltaTime <= MaxTime
    /\ ecs' = IF AnimationPaused(paused) THEN ecs
              ELSE AnimateAll(ecs, AnimationMembers(ecs), deltaTime)
    /\ last' = Frame("AnimationSystem::Update", deltaTime)
    /\ trace' = Untouched(mEntities)
    /\ UNCHANGED <<play, layerVisibility, paused, editorVars, timelineVars>>

\* The collision system reports the entity hit, or no longer hit.
SetCollided(e, collided) ==
    /\ e \in AnimationMembers(ecs)
    /\ HasComponent(ecs, "CollisionComponent", e)
    /\ GetComponent(ecs, "CollisionComponent", e).collided # collided
    /\ ecs' = [ecs EXCEPT !.mComponentArrays["CollisionComponent"][e].collided = collided]
    /\ last' = Frame("Collision", 0)
    /\ trace' = Untouched(mEntities)
    /\ UNCHANGED <<play, layerVisibility, paused, editorVars, timelineVars>>

PauseNext ==
    \/ \E dt \in PauseDeltaTimes : LiveUpdate(dt)
    \/ \E tag \in TimelineTags : ToggleActive(tag)
    \/ PauseButton
    \/ \E dt \in AnimationDeltaTimes : AnimationSystemUpdate(dt)
    \/ \E e \in EntityIds, collided \in BOOLEAN : SetCollided(e, collided)

\* The engine loop calls every system's Update in every frame.
PauseSpec ==
    /\ PauseInit
    /\ [][PauseNext]_vars
    /\ WF_vars(\E dt \in PauseDeltaTimes : LiveUpdate(dt))

\* ------------------------------------------------- sprites that are hit
\* One boss or player with a sprite and a collision box; frames of 1/60 s and
\* of 1/30 s.
AnimationFrameTimes == {FrameStep, 33}

AnimationScenes == {SceneOf(Boss), SceneOf(PlayerWith(1)), SceneOf(PlayerWith(0))}

AnimationInit ==
    /\ play = TRUE
    /\ paused = FALSE
    /\ layerVisibility = [l \in Layers |-> TRUE]
    /\ ecs \in AnimationScenes
    /\ mEntities = {}
    /\ timeline = EmptyFunction
    /\ tags = EmptyFunction
    /\ layerID = EmptyFunction
    /\ cues = EmptyFunction
    /\ selectedEntity = NoEntity
    /\ isPropertiesWindowOpen = FALSE
    /\ sortedEntities = <<>>
    /\ openPopup = NoPopup
    /\ last = Frame("Load", 0)
    /\ trace = Untouched(mEntities)

AnimationNext ==
    \/ \E dt \in AnimationFrameTimes : AnimationSystemUpdate(dt)
    \/ \E e \in EntityIds, collided \in BOOLEAN : SetCollided(e, collided)
    \/ PauseButton

AnimationSpec == AnimationInit /\ [][AnimationNext]_vars

\* ------------------------------------------------- Graphics::Update
\* enum Layer { Background, Character, Foreground, UI, Debug }, as an integer
LayerOrder(layer) == IF layer = "Background" THEN 0 ELSE 3

SortIds == {0, 1}

\* LayerComponent{}: the Background layer, sortID 0
LayerValue(layer, sortID) == [layerID |-> layer, sortID |-> sortID]

GraphicsMembers(c) == c.mSystems["Graphics"]

\* The comparator of the sort: LayerID, then SortID, and finally the entity id.
CompareIgnoresSortID(c, a, b) ==
    LET layerA == GetComponent(c, "LayerComponent", a)
        layerB == GetComponent(c, "LayerComponent", b)
    IN IF layerA.layerID # layerB.layerID
       THEN LayerOrder(layerA.layerID) < LayerOrder(layerB.layerID)
       ELSE a < b

Compare(c, a, b) ==
    LET layerA == GetComponent(c, "LayerComponent", a)
        layerB == GetComponent(c, "LayerComponent", b)
    IN IF layerA.layerID # layerB.layerID
       THEN LayerOrder(layerA.layerID) < LayerOrder(layerB.layerID)
       ELSE IF layerA.sortID # layerB.sortID
            THEN layerA.sortID < layerB.sortID
            ELSE a < b

\* std::sort(sortedEntities.begin(), sortedEntities.end(), comparator): each
\* element is put before the first one the comparator places it before.
InsertSorted(c, q, e) ==
    LET before == {i \in DOMAIN q : Compare(c, e, q[i])}
        at == IF before = {} THEN Len(q) + 1 ELSE Min(before)
    IN SubSeq(q, 1, at - 1) \o <<e>> \o SubSeq(q, at, Len(q))

\* sortedEntities.assign(mEntities.begin(), mEntities.end()), then the sort: the
\* members are taken in the order of the set, that of the ids.
RECURSIVE SortEntities(_, _, _)
SortEntities(c, q, rest) ==
    IF rest = {} THEN q
    ELSE LET e == Min(rest)
         IN SortEntities(c, InsertSorted(c, q, e), rest \ {e})

\* The GetComponent<T>(entity) calls that an Update makes on its members with no
\* HasComponent<T> test before them, as pairs <<entity, T>>.
SortReads(c) ==
    IF Cardinality(GraphicsMembers(c)) >= 2
    THEN {<<e, "LayerComponent">> : e \in GraphicsMembers(c)} ELSE {}

GraphicsReads(c) ==
    SortReads(c)
        \cup (GraphicsMembers(c)
                \X {"TransformComponent", "RenderComponent", "LayerComponent"})

TimelineReads(c) ==
    c.mSystems["TimelineSystem"]
        \X {"TimelineComponent", "TransformComponent", "LayerComponent"}

\* AnimationSystem::Update tests HasComponent before every read but that of the
\* AnimationComponent, which it makes on the members that hold a RenderComponent.
AnimationReads(c) ==
    {<<e, "AnimationComponent">> :
        e \in {m \in AnimationMembers(c) : HasComponent(c, "RenderComponent", m)}}

Unmet(c, reads) == {r \in reads : ~HasComponent(c, r[2], r[1])}

\* A read of a component the entity does not hold is undefined: the sort may
\* leave the members in any order.
Orderings(S) ==
    {q \in [1 .. Cardinality(S) -> S] : \A i, j \in DOMAIN q : q[i] = q[j] => i = j}

SortOutcomes(c) ==
    IF Unmet(c, SortReads(c)) = {}
    THEN {SortEntities(c, <<>>, GraphicsMembers(c))}
    ELSE Orderings(GraphicsMembers(c))

\* ------------------------------------------------- the editor's frame
\* ecsInterface.ClearEntities(): every live entity is destroyed.
RECURSIVE ClearEntities(_)
ClearEntities(c) ==
    IF GetEntities(c) = {} THEN c
    ELSE ClearEntities(DestroyEntity(c, Min(GetEntities(c))).ecs)

\* The entity "Create Entity" makes, and the entities of a scene file: that one,
\* a sprite with nothing else, a timeline with nothing else.
DefaultEntity ==
    << <<"TransformComponent", "v0">>, <<"RenderComponent", "v0">>,
       <<"LayerComponent", LayerValue("Background", 0)>>, <<"TextComponent", "v0">> >>

SceneFiles == {"Empty", "Default", "Sprite", "Timeline"}

EntityOf(file) ==
    IF file = "Default" THEN DefaultEntity
    ELSE IF file = "Sprite" THEN << <<"RenderComponent", "v0">> >>
    ELSE << <<"TimelineComponent", "v0">> >>

LoadEntity(c, comps) ==
    LET r == CreateEntity(c)
    IN IF r.error # "none" THEN c ELSE AddComponents(r.ecs, r.entity, comps)

\* GlobalAssetManager.UE_LoadEntities(filePath)
UE_LoadEntities(c, file) == IF file = "Empty" THEN c ELSE LoadEntity(c, EntityOf(file))

\* What the user does in a frame: the widget clicked, if any, and what was
\* chosen in it.
Click(kind, entity, layer, sortID, file) ==
    [kind |-> kind, entity |-> entity, layer |-> layer, sortID |-> sortID, file |-> file]

Clicks ==
    { Click(k, NoEntity, "Background", 0, "Empty") :
        k \in {"None", "CreateEntity", "DeleteAll", "DeleteEntity", "Yes", "Cancel",
               "AddTimeline", "Close", "Play", "Pause"} }
      \cup { Click(k, e, "Background", 0, "Empty") :
               k \in {"Select", "Viewport"}, e \in EntityIds }
      \cup { Click("Layer", NoEntity, l, 0, "Empty") : l \in Layers }
      \cup { Click("SortID", NoEntity, "Background", n, "Empty") : n \in SortIds }
      \cup { Click("Stop", NoEntity, "Background", 0, f) : f \in SceneFiles }

\* A modal popup takes every click while it is shown.
Applicable(click) ==
    IF openPopup = NoPopup THEN click.kind \notin {"Yes", "Cancel"}
    ELSE click.kind \in {"None", "Yes", "Cancel"}

\* The "Entity Creation" header: Create Entity, Delete All Entity and Delete
\* Entity, each of the last two with the popup that asks "Are you sure?".
EntityCreationPanel(g, click) ==
    CASE click.kind = "CreateEntity" ->
            [g EXCEPT !.ecs = LoadEntity(@, DefaultEntity)]
      [] click.kind = "DeleteAll" ->
            [g EXCEPT !.openPopup = "Confirm Clear All"]
      [] click.kind = "Yes" /\ g.openPopup = "Confirm Clear All" ->
            [g EXCEPT !.isPropertiesWindowOpen = FALSE,
                      !.ecs = ClearEntities(@),
                      !.stale = @ \/ IsEntityValid(g.ecs, g.selectedEntity),
                      !.openPopup = NoPopup]
      [] click.kind = "DeleteEntity" ->
            [g EXCEPT !.openPopup = "Confirm Clear Entity"]
      [] click.kind = "Yes" /\ g.openPopup = "Confirm Clear Entity" ->
            IF g.selectedEntity = NoEntity THEN [g EXCEPT !.openPopup = NoPopup]
            ELSE [g EXCEPT !.ecs = DestroyEntity(@, g.selectedEntity).ecs,
                           !.deleted = <<[entity |-> g.selectedEntity,
                                          valid |-> IsEntityValid(g.ecs, g.selectedEntity),
                                          stale |-> g.stale]>>,
                           !.stale = TRUE,
                           !.openPopup = NoPopup]
      [] click.kind = "Cancel" -> [g EXCEPT !.openPopup = NoPopup]
      [] OTHER -> g

\* The "Entity List" window: one selectable item for every live entity.
EntityList(g, click) ==
    IF click.kind = "Select" /\ IsEntityValid(g.ecs, click.entity)
    THEN [g EXCEPT !.selectedEntity = click.entity, !.isPropertiesWindowOpen = TRUE,
                   !.stale = FALSE]
    ELSE g

\* The "Entity Properties" window of the selected entity.
EntityProperties(g, click) ==
    LET e == g.selectedEntity
    IN CASE click.kind = "SortID" /\ HasComponent(g.ecs, "LayerComponent", e) ->
               [g EXCEPT !.ecs.mComponentArrays["LayerComponent"][e].sortID = click.sortID]
         [] click.kind = "Layer" /\ HasComponent(g.ecs, "LayerComponent", e) ->
               [g EXCEPT !.ecs.mComponentArrays["LayerComponent"][e].layerID = click.layer]
         [] click.kind = "AddTimeline" /\ ~HasComponent(g.ecs, "TimelineComponent", e) ->
               [g EXCEPT !.ecs = AddComponent(@, "TimelineComponent", e, "v0")]
         [] click.kind = "Close" -> [g EXCEPT !.isPropertiesWindowOpen = FALSE]
         [] OTHER -> g

\* if (isPropertiesWindowOpen && selectedEntity != max) { ... }: the selection
\* is dropped when its entity is not valid, and when the window is closed.
SelectionPanel(g, click) ==
    IF ~(g.isPropertiesWindowOpen /\ g.selectedEntity # NoEntity) THEN g
    ELSE IF ~IsEntityValid(g.ecs, g.selectedEntity)
         THEN [g EXCEPT !.isPropertiesWindowOpen = FALSE, !.selectedEntity = NoEntity]
         ELSE LET edited == EntityProperties(g, click)
              IN IF ~edited.isPropertiesWindowOpen
                 THEN [edited EXCEPT !.selectedEntity = NoEntity]
                 ELSE edited

\* The Play, Pause and Stop buttons.
Toolbar(g, click) ==
    CASE click.kind = "Play" -> [g EXCEPT !.play = TRUE]
      [] click.kind = "Pause" -> [g EXCEPT !.paused = IF g.play THEN ~@ ELSE @]
      [] click.kind = "Stop" ->
            [g EXCEPT !.play = FALSE,
                      !.ecs = UE_LoadEntities(ClearEntities(@), click.file),
                      !.stale = @ \/ IsEntityValid(g.ecs, g.selectedEntity)]
      [] OTHER -> g

\* The "Main Viewport" window: an invisible button over every live entity.
Viewport(g, click) ==
    IF /\ click.kind = "Viewport"
       /\ IsEntityValid(g.ecs, click.entity)
       /\ HasComponent(g.ecs, "TransformComponent", click.entity)
    THEN [g EXCEPT !.selectedEntity = click.entity, !.isPropertiesWindowOpen = TRUE,
                   !.stale = FALSE]
    ELSE g

\* The editor's part of Graphics::Update, in the order of the code.
EditorFrame(g, click) ==
    Viewport(Toolbar(SelectionPanel(EntityList(EntityCreationPanel(g, click), click),
                                    click), click), click)

\* ------------------------------------------------- a scene in the editor
\* trace.stale: the entity that was selected has been destroyed since.
EditorInit ==
    /\ play = FALSE
    /\ paused = FALSE
    /\ layerVisibility = [l \in Layers |-> TRUE]
    /\ ecs = GameStarted
    /\ mEntities = {}
    /\ timeline = [e \in EntityIds |-> DefaultTimeline]
    /\ tags = [e \in EntityIds |-> <<>>]
    /\ layerID = EmptyFunction
    /\ cues = EmptyFunction
    /\ selectedEntity = NoEntity
    /\ isPropertiesWindowOpen = FALSE
    /\ sortedEntities = <<>>
    /\ openPopup = NoPopup
    /\ trace = [stale |-> FALSE]
    /\ last = [op |-> "Load", deleted |-> <<>>]

\* void Graphics::Update(float deltaTime): the sort of the members, then the
\* editor's windows.
GraphicsUpdate(click) ==
    /\ Applicable(click)
    /\ sortedEntities' \in SortOutcomes(ecs)
    /\ LET g == EditorFrame([ecs |-> ecs, selectedEntity |-> selectedEntity,
                             isPropertiesWindowOpen |-> isPropertiesWindowOpen,
                             openPopup |-> openPopup, play |-> play,
                             paused |-> paused, stale |-> trace.stale,
                             deleted |-> <<>>], click)
       IN /\ ecs' = g.ecs
          /\ selectedEntity' = g.selectedEntity
          /\ isPropertiesWindowOpen' = g.isPropertiesWindowOpen
          /\ openPopup' = g.openPopup
          /\ play' = g.play
          /\ paused' = g.paused
          /\ mEntities' = TimelineMembers(g.ecs)
          /\ trace' = [stale |-> g.stale /\ g.selectedEntity # NoEntity]
          /\ last' = [op |-> "Graphics::Update", deleted |-> g.deleted]
    /\ UNCHANGED <<layerVisibility, layerID, timeline, tags, cues>>

\* void TimelineSystem::Update(float deltaTime) on the members of the scene, whose
\* timelines are not active. The layer read for a member that holds no
\* LayerComponent is undefined: it may be hidden or not.
TimelineSystemUpdate(dt) ==
    /\ \E hidden \in [TimelineMembers(ecs) -> BOOLEAN] :
          /\ \A e \in TimelineMembers(ecs) :
                HasComponent(ecs, "LayerComponent", e)
                   => hidden[e] = LayerHidden(layerVisibility,
                                              GetComponent(ecs, "LayerComponent", e).layerID)
          /\ LET ran(e) == e \in TimelineMembers(ecs) /\ ~SkipUpdate(play)
                 r(e) == UpdateEntity(timeline[e], tags[e], hidden[e], dt)
             IN /\ timeline' = [e \in EntityIds |-> IF ran(e) THEN r(e).tl ELSE timeline[e]]
                /\ tags' = [e \in EntityIds |-> IF ran(e) THEN r(e).tags ELSE tags[e]]
    /\ last' = [op |-> "Update", deleted |-> <<>>]
    /\ UNCHANGED <<play, paused, layerVisibility, ecs, mEntities, layerID, cues,
                   editorVars, trace>>

\* A gameplay system destroys an entity in play mode.
GameplayDestroy(e) ==
    /\ play
    /\ IsEntityValid(ecs, e)
    /\ ecs' = DestroyEntity(ecs, e).ecs
    /\ mEntities' = TimelineMembers(ecs')
    /\ trace' = [stale |-> trace.stale \/ e = selectedEntity]
    /\ last' = [op |-> "DestroyEntity", deleted |-> <<>>]
    /\ UNCHANGED <<play, paused, layerVisibility, layerID, timeline, tags, cues, editorVars>>

\* The user works on the scene and plays it; the sprites stay as they are made.
EditorClicks == {click \in Clicks : click.kind \notin {"Layer", "SortID"}}

EditorNext ==
    \/ \E click \in EditorClicks : GraphicsUpdate(click)
    \/ \E dt \in SceneDeltaTimes : TimelineSystemUpdate(dt)
    \/ \E e \in EntityIds : GameplayDestroy(e)

EditorSpec == EditorInit /\ [][EditorNext]_vars

\* ------------------------------------------------- arranging the sprites
\* The user creates entities, selects them, sets their layer and sort id and
\* deletes them.
SortClicks ==
    {click \in Clicks :
        click.kind \in {"None", "CreateEntity", "Select", "Layer", "SortID", "DeleteEntity",
                        "Yes", "Cancel"}}

SortNext == \E click \in SortClicks : GraphicsUpdate(click)

SortSpec == EditorInit /\ [][SortNext]_vars

\* ------------------------------------------------- frames without end
\* One active timeline in play mode on a visible layer, with every binding of
\* the registered callbacks; every frame's deltaTime is half a second or more.
TerminationTimelines ==
    { Loaded(TRUE, i, d, 0, 1000, b[1], b[2], "A") :
        i \in BOOLEAN, d \in Delays, b \in Bindings }

TerminationInit ==
    /\ play = TRUE
    /\ paused = FALSE
    /\ layerVisibility = [l \in Layers |-> TRUE]
    /\ ecs = FreshCoordinator
    /\ mEntities = {1}
    /\ timeline \in [{1} -> TerminationTimelines]
    /\ tags = [e \in {1} |-> <<>>]
    /\ layerID = [e \in {1} |-> "UI"]
    /\ cues = [e \in {1} |-> NoCues]
    /\ selectedEntity = NoEntity
    /\ isPropertiesWindowOpen = FALSE
    /\ sortedEntities = <<>>
    /\ openPopup = NoPopup
    /\ last = Frame("Load", 0)
    /\ trace = Untouched(mEntities)

TerminationNext ==
    \/ \E dt \in PauseDeltaTimes : LiveUpdate(dt)
    \/ \E tag \in TimelineTags : ToggleActive(tag)

\* The engine loop calls TimelineSystem::Update in every frame.
TerminationSpec ==
    /\ TerminationInit
    /\ [][TerminationNext]_vars
    /\ WF_vars(\E dt \in PauseDeltaTimes : LiveUpdate(dt))

\* ------------------------------------------------------------- properties
Visible(e) == layerVisibility[layerID[e]]

Invoked(tr, e, phase) == \E i \in DOMAIN tr[e].calls : tr[e].calls[i].phase = phase

NoneInvoked(tr, e) == tr[e].calls = NoCalls

\* C1: an Update made while the engine is not in play mode changes no
\* TimelineComponent, invokes no callback and adds no tag, for every deltaTime.
C1_NotPlayingIsNoOp ==
    [][ (last'.op = "Update" /\ ~play)
          => /\ timeline' = timeline
             /\ tags' = tags
             /\ \A e \in mEntities : NoneInvoked(trace', e) ]_vars

\* An Update with a positive deltaTime was made out of play mode on an active
\* timeline of a visible layer that did not carry its tag yet.
C1_Witness ==
    /\ last.op = "Update" /\ last.dt > 0 /\ ~play
    /\ \E e \in mEntities :
          /\ timeline[e].Active /\ Visible(e)
          /\ ~HasTag(tags[e], timeline[e].TimelineTag)

\* C2: an Update of an active in-phase entity whose in-delay has elapsed and whose
\* InternalTimer, advanced by deltaTime, reaches TransitionDuration returns with
\* IsTransitioningIn false, InternalTimer 0 and DelayAccumulated 0, whichever
\* callback is bound as TransitionIn.
C2_InPhaseCompletes ==
    [][ \A e \in mEntities :
          ( /\ last'.op = "Update" /\ play /\ Visible(e)
            /\ timeline[e].Active /\ timeline[e].IsTransitioningIn
            /\ timeline[e].DelayAccumulated + last'.dt >= timeline[e].TransitionInDelay
            /\ timeline[e].InternalTimer + last'.dt >= timeline[e].TransitionDuration )
          => /\ ~timeline'[e].IsTransitioningIn
             /\ timeline'[e].InternalTimer = 0
             /\ timeline'[e].DelayAccumulated = 0 ]_vars

\* C3: an Update of an active out-phase entity whose out-delay has elapsed and
\* whose InternalTimer, advanced by deltaTime, reaches TransitionDuration returns
\* with Active false; and no Update turns Active from false to true.
C3_OutPhaseDeactivates ==
    [][ \A e \in mEntities :
          /\ ( /\ last'.op = "Update" /\ play /\ Visible(e)
               /\ timeline[e].Active /\ ~timeline[e].IsTransitioningIn
               /\ timeline[e].DelayOutAccumulated + last'.dt
                     >= timeline[e].TransitionOutDelay
               /\ timeline[e].InternalTimer + last'.dt >= timeline[e].TransitionDuration )
             => ~timeline'[e].Active
          /\ (last'.op = "Update" /\ ~timeline[e].Active) => ~timeline'[e].Active ]_vars

\* C4: an Update of an active, visible entity adds deltaTime to the delay
\* accumulator of its phase (DelayAccumulated is back at 0 only when that same
\* Update completes the in-phase); and while the accumulator stays below the
\* configured delay, InternalTimer, IsTransitioningIn and Active keep their values
\* and no callback is invoked.
C4_DelayGates ==
    [][ \A e \in mEntities :
          (last'.op = "Update" /\ play /\ Visible(e) /\ timeline[e].Active)
          => LET old == timeline[e]
                 new == timeline'[e]
                 dt == last'.dt
                 held == /\ new.InternalTimer = old.InternalTimer
                         /\ new.IsTransitioningIn = old.IsTransitioningIn
                         /\ new.Active = old.Active
                         /\ NoneInvoked(trace', e)
             IN IF old.IsTransitioningIn
                THEN /\ \/ new.DelayAccumulated = old.DelayAccumulated + dt
                        \/ ~new.IsTransitioningIn /\ new.DelayAccumulated = 0
                     /\ new.DelayOutAccumulated = old.DelayOutAccumulated
                     /\ old.DelayAccumulated + dt < old.TransitionInDelay
                           => held /\ new.DelayAccumulated = old.DelayAccumulated + dt
                ELSE /\ new.DelayOutAccumulated = old.DelayOutAccumulated + dt
                     /\ new.DelayAccumulated = old.DelayAccumulated
                     /\ old.DelayOutAccumulated + dt < old.TransitionOutDelay => held ]_vars

\* Scenario 1: with TransitionInDelay of one second, after Updates totalling half
\* a second the entity still waits: DelayAccumulated is 500 and InternalTimer 0.
C4_Witness ==
    /\ last.op = "Update" /\ play
    /\ \E e \in mEntities :
          /\ Visible(e) /\ timeline[e].Active /\ timeline[e].IsTransitioningIn
          /\ timeline[e].TransitionInDelay = 1000
          /\ timeline[e].TransitionIn # NoCallback
          /\ timeline[e].DelayAccumulated = 500
          /\ timeline[e].InternalTimer = 0
          /\ trace[e].path = "WaitingIn"

\* C5: an Update leaves InternalTimer, DelayAccumulated, DelayOutAccumulated and
\* IsTransitioningIn of an inactive timeline as they are, keeps it inactive and
\* invokes neither of its callbacks.
C5_InactiveIsFrozen ==
    [][ \A e \in mEntities :
          (last'.op = "Update" /\ ~timeline[e].Active)
          => /\ timeline'[e] = timeline[e]
             /\ NoneInvoked(trace', e) ]_vars

\* An Update in play mode, with a positive deltaTime, passed over an inactive
\* timeline of a visible layer whose callbacks are bound.
C5_Witness ==
    /\ last.op = "Update" /\ last.dt > 0 /\ play
    /\ \E e \in mEntities :
          /\ Visible(e) /\ ~timeline[e].Active
          /\ timeline[e].TransitionIn # NoCallback
          /\ timeline[e].TransitionOut # NoCallback
          /\ trace[e].path = "Inactive"
\* C6 as stated: no Update turns IsTransitioningIn from false to true, and an
\* Update that finds the entity in the in-phase does not invoke TransitionOut,
\* whichever registered callbacks are bound.
C6_NeverBackwards ==
    [][ \A e \in mEntities :
          last'.op = "Update"
          => /\ ~(~timeline[e].IsTransitioningIn /\ timeline'[e].IsTransitioningIn)
             /\ timeline[e].IsTransitioningIn => ~Invoked(trace', e, "Out") ]_vars

\* C6, amended: an Update turns IsTransitioningIn from false to true only when
\* the TransitionOut it invoked is Credits ("CreditsY") and the out-phase timer
\* it was given had reached TransitionDuration (Credits loops: it resets the timer
\* and sets IsTransitioningIn); and an Update that finds the entity in the
\* in-phase does not invoke TransitionOut.
C6_BackwardsOnlyByCredits ==
    [][ \A e \in mEntities :
          last'.op = "Update"
          => /\ (~timeline[e].IsTransitioningIn /\ timeline'[e].IsTransitioningIn)
                  => /\ timeline[e].TransitionOut = "CreditsY"
                     /\ Invoked(trace', e, "Out")
                     /\ timeline[e].InternalTimer + last'.dt
                           >= timeline[e].TransitionDuration
                     /\ timeline'[e].InternalTimer = 0
             /\ timeline[e].IsTransitioningIn => ~Invoked(trace', e, "Out") ]_vars

\* An Update invoked Credits as TransitionOut at the end of the out-phase and left
\* the entity active, back in the in-phase.
C6_Witness ==
    /\ last.op = "Update"
    /\ \E e \in mEntities :
          /\ timeline[e].TransitionOut = "CreditsY"
          /\ Invoked(trace, e, "Out")
          /\ timeline[e].Active /\ timeline[e].IsTransitioningIn
          /\ timeline[e].InternalTimer = 0

\* C7: one Update invokes at most one callback for an entity, never TransitionIn
\* and TransitionOut both, and an entity that is active and in the in-phase when
\* Update is called is still active when it returns, however large deltaTime is.
C7_OnePhasePerUpdate ==
    [][ \A e \in mEntities :
          last'.op = "Update"
          => /\ Len(trace'[e].calls) <= 1
             /\ ~(Invoked(trace', e, "In") /\ Invoked(trace', e, "Out"))
             /\ (timeline[e].Active /\ timeline[e].IsTransitioningIn)
                   => timeline'[e].Active ]_vars

\* One Update whose deltaTime covers the in-delay, the in-phase, the out-delay and
\* the out-phase together completed the in-phase only: the entity is active, in
\* the out-phase, with its timers at 0.
C7_Witness ==
    /\ last.op = "Update"
    /\ \E e \in mEntities :
          /\ trace[e].path = "InComplete"
          /\ last.dt >= timeline[e].TransitionInDelay + timeline[e].TransitionOutDelay
                          + 2 * timeline[e].TransitionDuration
          /\ timeline[e].TransitionIn # NoCallback
          /\ timeline[e].TransitionOut # NoCallback
          /\ timeline[e].Active /\ ~timeline[e].IsTransitioningIn
          /\ timeline[e].InternalTimer = 0 /\ timeline[e].DelayOutAccumulated = 0

\* C8: ToggleActive(tag) sets Active of every member whose TimelineTag is tag and
\* changes nothing else of any TimelineComponent; with no member of that tag
\* nothing changes at all and only the warning is left; it never clears Active,
\* and a second call with the same tag changes nothing.
C8_ToggleActiveBroadcasts ==
    [][ \A tag \in ToggleTags :
          ToggleActive(tag)
          => /\ \A e \in mEntities :
                   /\ timeline'[e].Active
                         = (timeline[e].Active \/ timeline[e].TimelineTag = tag)
                   /\ timeline'[e] = [timeline[e] EXCEPT !.Active = timeline'[e].Active]
                   /\ ToggleEntity(timeline'[e], tag) = timeline'[e]
             /\ last'.activated = (\E e \in mEntities : timeline[e].TimelineTag = tag)
             /\ ~last'.activated => timeline' = timeline
             /\ tags' = tags /\ play' = play ]_vars

\* ToggleActive has reactivated the second entity, which had run its out-phase to
\* the end, and has left the first, inactive and of another tag, as it was.
C8_Witness ==
    /\ last.op = "ToggleActive" /\ last.activated
    /\ mEntities = {1, 2}
    /\ timeline[1].TimelineTag # timeline[2].TimelineTag
    /\ ~timeline[1].Active
    /\ timeline[2].Active /\ ~timeline[2].IsTransitioningIn
    /\ timeline[2].InternalTimer >= timeline[2].TransitionDuration

\* The per-frame rules of the timeline for an entity whose phase callback is unbound.
RuleStep(tl, dt) ==
    IF ~tl.Active THEN tl
    ELSE IF tl.IsTransitioningIn
    THEN IF tl.DelayAccumulated + dt < tl.TransitionInDelay
         THEN [tl EXCEPT !.DelayAccumulated = @ + dt]
         ELSE IF tl.InternalTimer + dt >= tl.TransitionDuration
              THEN [tl EXCEPT !.IsTransitioningIn = FALSE, !.InternalTimer = 0,
                              !.DelayAccumulated = 0]
              ELSE [tl EXCEPT !.DelayAccumulated = @ + dt, !.InternalTimer = @ + dt]
    ELSE IF tl.DelayOutAccumulated + dt < tl.TransitionOutDelay
         THEN [tl EXCEPT !.DelayOutAccumulated = @ + dt]
         ELSE IF tl.InternalTimer + dt >= tl.TransitionDuration
              THEN [tl EXCEPT !.DelayOutAccumulated = @ + dt, !.InternalTimer = @ + dt,
                              !.Active = FALSE]
              ELSE [tl EXCEPT !.DelayOutAccumulated = @ + dt, !.InternalTimer = @ + dt]

\* C9: an Update of an entity whose callback for the current phase is unbound
\* invokes nothing and leaves the TimelineComponent exactly as the per-frame rules
\* prescribe: delays and InternalTimer accumulate, the in-phase completes, and the
\* out-phase ends with Active false.
C9_UnboundCallbackTolerated ==
    [][ \A e \in mEntities :
          ( /\ last'.op = "Update" /\ play /\ Visible(e)
            /\ IF timeline[e].IsTransitioningIn
               THEN timeline[e].TransitionIn = NoCallback
               ELSE timeline[e].TransitionOut = NoCallback )
          => /\ timeline'[e] = RuleStep(timeline[e], last'.dt)
             /\ NoneInvoked(trace', e) ]_vars

\* A timeline with both callbacks unbound and delays of a second has run its
\* out-phase to the end and is inactive.
C9_Witness ==
    /\ last.op = "Update"
    /\ \E e \in mEntities :
          /\ timeline[e].TransitionIn = NoCallback
          /\ timeline[e].TransitionOut = NoCallback
          /\ timeline[e].TransitionInDelay > 0 /\ timeline[e].TransitionOutDelay > 0
          /\ trace[e].path = "OutComplete"
          /\ ~timeline[e].Active
          /\ timeline[e].DelayOutAccumulated
                >= timeline[e].TransitionOutDelay + timeline[e].TransitionDuration

\* C10: no Update makes an entity carry its TimelineTag twice; after an Update
\* that reached the entity (play mode, visible layer) it carries the tag exactly
\* once; and Update adds a tag only when the entity did not carry it.
C10_TagAddedOnce ==
    [][ \A e \in mEntities :
          last'.op = "Update"
          => LET tag == timeline[e].TimelineTag
             IN /\ Count(tags'[e], tag) <= 1
                /\ (play /\ Visible(e)) => Count(tags'[e], tag) = 1
                /\ tags'[e] # tags[e]
                      => ~HasTag(tags[e], tag) /\ tags'[e] = AddTag(tags[e], tag) ]_vars

\* An Update reached an entity that already carried its tag, after an earlier
\* Update had added it, and the entity carries it once.
C10_Witness ==
    /\ last.op = "Update" /\ play
    /\ \E e \in mEntities :
          /\ Visible(e)
          /\ timeline[e].DelayAccumulated >= 1000
          /\ trace[e].path = "TransitioningIn"
          /\ tags[e] = <<timeline[e].TimelineTag>>

\* C11: the Active check comes before the tag step: an Update does nothing at all
\* to an entity whose timeline is inactive; its TimelineComponent and its tags are
\* as they were and no callback is invoked.
C11_InactiveGetsNoTag ==
    [][ \A e \in mEntities :
          (last'.op = "Update" /\ ~timeline[e].Active)
          => /\ timeline'[e] = timeline[e]
             /\ tags'[e] = tags[e]
             /\ NoneInvoked(trace', e) ]_vars

\* C12: an Update skips an entity of a hidden layer: its TimelineComponent and its
\* tags are unchanged and no callback is invoked; and hiding or showing a layer
\* changes no TimelineComponent and no tag, so the timeline goes on from the state
\* it was hidden in.
C12_HiddenLayerSkipped ==
    [][ /\ \A e \in mEntities :
             (last'.op = "Update" /\ ~Visible(e))
             => /\ timeline'[e] = timeline[e]
                /\ tags'[e] = tags[e]
                /\ NoneInvoked(trace', e)
        /\ last'.op = "ToggleLayer" => (timeline' = timeline /\ tags' = tags) ]_vars

\* An Update in play mode, with a positive deltaTime, passed over an active entity
\* that was hidden in the middle of its in-phase, with its callback bound and its
\* tag not yet added.
C12_Witness ==
    /\ last.op = "Update" /\ last.dt > 0 /\ play
    /\ \E e \in mEntities :
          /\ ~Visible(e) /\ trace[e].path = "Hidden"
          /\ timeline[e].Active /\ timeline[e].IsTransitioningIn
          /\ timeline[e].TransitionIn # NoCallback
          /\ timeline[e].InternalTimer > 0
          /\ timeline[e].InternalTimer < timeline[e].TransitionDuration

\* ------------------------------------------------ properties of the Coordinator
RegisteredKinds(c) == DOMAIN c.mComponentTypes

Holds(c, T, e) == e \in DOMAIN c.mComponentArrays[T]

\* C13: in every state, so after every AddComponent, RemoveComponent and
\* DestroyEntity, every entity is in the member set of every system exactly when
\* its signature holds all the bits the system requires.
C13_MembershipMatchesSignature ==
    \A s \in DOMAIN ecs.mSystems, e \in EntityIds :
        (e \in ecs.mSystems[s])
            <=> (ecs.mSystemSignatures[s] \subseteq GetEntitySignature(ecs, e))

\* Scenario 5: TimelineComponent, a bit neither system requires, was removed from
\* an entity that Graphics and the system overlapping it both hold; a second
\* entity with the RenderComponent only is held by Graphics alone.
C13_Witness ==
    /\ last.op = "RemoveComponent" /\ last.kind = "TimelineComponent"
    /\ "OverlappingSystem" \in DOMAIN ecs.mSystems
    /\ last.entity \in ecs.mSystems["Graphics"] \cap ecs.mSystems["OverlappingSystem"]
    /\ last.entity \notin ecs.mSystems["TimelineSystem"]
    /\ \E e \in EntityIds \ {last.entity} :
          /\ e \in ecs.mSystems["Graphics"] \cap ecs.mSystems["TimelineSystem"]
          /\ e \notin ecs.mSystems["OverlappingSystem"]

\* Every other (entity, kind) pair answers HasComponent as before the call and
\* stores the value it stored.
OtherPairsKept(old, new, e, T) ==
    \A e2 \in EntityIds, T2 \in RegisteredKinds(old) :
        <<e2, T2>> # <<e, T>>
        => /\ HasComponent(new, T2, e2) = HasComponent(old, T2, e2)
           /\ Holds(new, T2, e2) = Holds(old, T2, e2)
           /\ Holds(old, T2, e2) => GetComponent(new, T2, e2) = GetComponent(old, T2, e2)

InNoSystem(c, e) == \A s \in DOMAIN c.mSystems : e \notin c.mSystems[s]

HoldsNothing(c, e) == \A T \in RegisteredKinds(c) : ~Holds(c, T, e)

\* C15: DestroyEntity of a live entity leaves its signature all-zero, the entity
\* in no system's member set and holding no component, and its id in the free
\* pool; and an id CreateEntity returns, recycled or not, has an all-zero
\* signature, holds no component and is in no system's member set.
C15_DestroyClearsAndRecycles ==
    [][ /\ (last'.op = "DestroyEntity" /\ IsEntityValid(ecs, last'.entity))
             => /\ last'.error = "none"
                /\ GetEntitySignature(ecs', last'.entity) = {}
                /\ InNoSystem(ecs', last'.entity)
                /\ HoldsNothing(ecs', last'.entity)
                /\ last'.entity \in Range(ecs'.mAvailableEntities)
        /\ (last'.op = "CreateEntity" /\ last'.error = "none")
             => /\ GetEntitySignature(ecs', last'.entity) = {}
                /\ InNoSystem(ecs', last'.entity)
                /\ HoldsNothing(ecs', last'.entity) ]_vars

\* CreateEntity has returned id 1 while entity 2, created after it, is live in
\* Graphics' member set: id 1 was destroyed and is issued again, and it is in no
\* system's member set.
C15_Witness ==
    /\ last.op = "CreateEntity" /\ last.error = "none" /\ last.entity = 1
    /\ IsEntityValid(ecs, 2) /\ 2 \in ecs.mSystems["Graphics"]
    /\ InNoSystem(ecs, 1) /\ GetEntitySignature(ecs, 1) = {}

\* C16: CreateEntity returns an id that was not live and is live from then on,
\* with an all-zero signature, so the live ids stay pairwise distinct and are as
\* many as the live-entity count says; it fails exactly when that count has
\* reached the maximum, and a failed call changes nothing.
C16_CreateEntityFresh ==
    [][ /\ last'.op \in {"CreateEntity", "CreateEntityButton"}
             => IF Cardinality(GetEntities(ecs)) < MaxEntities
                THEN /\ last'.error = "none"
                     /\ ~IsEntityValid(ecs, last'.entity)
                     /\ GetEntities(ecs') = GetEntities(ecs) \cup {last'.entity}
                     /\ last'.op = "CreateEntity"
                           => GetEntitySignature(ecs', last'.entity) = {}
                ELSE /\ last'.error = "ResourceExhausted"
                     /\ last'.entity = NoEntity
                     /\ ecs' = ecs
        /\ ecs'.mLivingEntityCount = Cardinality(GetEntities(ecs')) ]_vars

\* CreateEntity has failed with every id live, one of the live entities
\* holding no component.
C16_Witness ==
    /\ last.op = "CreateEntity" /\ last.error = "ResourceExhausted"
    /\ GetEntities(ecs) = EntityIds
    /\ ecs.mLivingEntityCount = MaxEntities
    /\ \E e \in EntityIds : GetEntitySignature(ecs, e) = {}

NoDuplicates(q) == \A i, j \in DOMAIN q : q[i] = q[j] => i = j

\* C18: DestroyEntity of an id that is not live, as the second of two calls is,
\* is an error that leaves the entity manager as it was; the free pool never
\* holds an id twice, the live-entity count is the number of ids outside the
\* pool, and so no id is issued to two live entities.
C18_DoubleDestroyHarmless ==
    [][ /\ (last'.op = "DestroyEntity" /\ ~IsEntityValid(ecs, last'.entity))
             => /\ last'.error = "PreconditionViolation"
                /\ ecs' = ecs
        /\ NoDuplicates(ecs'.mAvailableEntities)
        /\ ecs'.mLivingEntityCount + Len(ecs'.mAvailableEntities) = MaxEntities
        /\ (last'.op = "CreateEntity" /\ last'.error = "none")
             => ~IsEntityValid(ecs, last'.entity) ]_vars

\* DestroyEntity was called on an id already in the free pool while another
\* entity is live: the call failed and the pool holds the id once.
C18_Witness ==
    /\ last.op = "DestroyEntity" /\ last.error = "PreconditionViolation"
    /\ last.entity \in Range(ecs.mAvailableEntities)
    /\ ecs.mLivingEntityCount >= 1
    /\ Head(ecs.mAvailableEntities) = last.entity

Indices(f) == {f[T] : T \in DOMAIN f}

\* C17: a call that registers kinds leaves every registered kind the index it
\* had, gives each new kind the next free index, in the order of the calls, so
\* the indices are distinct, dense from 0 and below the signature width; and it
\* fails as a configuration error exactly when one of its kinds is registered
\* already or no bit is left for it, the kind it fails on getting no index that
\* it did not have.
C17_RegistrationOrder ==
    [][ LET old == ecs.mComponentTypes
            new == ecs'.mComponentTypes
            kinds == last'.kind
            fails(i) == \/ kinds[i] \in DOMAIN old
                        \/ Cardinality(DOMAIN old) + i > MaxComponents
        IN /\ \A T \in DOMAIN old : T \in DOMAIN new /\ new[T] = old[T]
           /\ \A T, U \in DOMAIN new : new[T] = new[U] => T = U
           /\ Indices(new) = 0 .. Cardinality(DOMAIN new) - 1
           /\ \A T \in DOMAIN new : new[T] < MaxComponents
           /\ ecs'.mNextComponentType = Cardinality(DOMAIN new)
           /\ \A i \in DOMAIN kinds :
                 (\A j \in 1 .. i : ~fails(j))
                    => /\ kinds[i] \in DOMAIN new
                       /\ new[kinds[i]] = Cardinality(DOMAIN old) + i - 1
           /\ IF \E i \in DOMAIN kinds : fails(i)
              THEN /\ last'.error = "ConfigurationError" /\ ecs'.aborted
                   /\ LET first == CHOOSE i \in DOMAIN kinds :
                                       fails(i) /\ \A j \in 1 .. i - 1 : ~fails(j)
                      IN DOMAIN new = DOMAIN old \cup {kinds[j] : j \in 1 .. first - 1}
              ELSE last'.error = "none" /\ ~ecs'.aborted ]_vars

\* TimelineSystem::Initialize has run a second time, after other registrations:
\* it failed, and TimelineComponent keeps the index it had, which is not 0.
C17_Witness ==
    /\ last.op = "TimelineSystem::Initialize" /\ last.error = "ConfigurationError"
    /\ ecs.aborted
    /\ IsRegistered(ecs, "TimelineComponent")
    /\ GetComponentType(ecs, "TimelineComponent") > 0
    /\ ecs.mNextComponentType > GetComponentType(ecs, "TimelineComponent") + 1

\* Graphics::Initialize has run with fewer than four bits left: the registration
\* that found no free bit failed, and all the bits are assigned.
C17_Exhausted ==
    /\ last.op = "Graphics::Initialize" /\ last.error = "ConfigurationError"
    /\ ecs.mNextComponentType = MaxComponents
    /\ IsRegistered(ecs, "TransformComponent")
    /\ ~IsRegistered(ecs, "TextComponent")

\* ------------------------------------------------------ properties of a scene
HasTimeline(c, e) == IsEntityValid(c, e) /\ HasComponent(c, "TimelineComponent", e)

Visited(tr, e) == tr[e].path # "None"

\* C19: an Update or a ToggleActive leaves the TimelineComponent slot and the
\* tags of an id that is not a live entity with a TimelineComponent, before and
\* after the call, exactly as they are and does not visit it: nothing is done to
\* a destroyed entity until its id is issued again and given a new
\* TimelineComponent.
C19_DestroyedNeverVisited ==
    [][ last'.op \in {"Update", "ToggleActive"}
          => \A e \in EntityIds :
                (~HasTimeline(ecs, e) /\ ~HasTimeline(ecs', e))
                => /\ timeline'[e] = timeline[e]
                   /\ tags'[e] = tags[e]
                   /\ ~Visited(trace', e) ]_vars

\* An Update with a positive deltaTime has visited a live member while the slot
\* of an entity destroyed in the middle of its in-phase still shows that phase:
\* active, transitioning in, its timer between 0 and the duration.
C19_Witness ==
    /\ last.op = "Update" /\ last.dt > 0 /\ play
    /\ \E e \in EntityIds :
          /\ ~IsEntityValid(ecs, e)
          /\ timeline[e].Active /\ timeline[e].IsTransitioningIn
          /\ timeline[e].InternalTimer > 0
          /\ timeline[e].InternalTimer < timeline[e].TransitionDuration
          /\ timeline[e].TransitionIn # NoCallback
    /\ \E e \in mEntities : Visited(trace, e) /\ timeline[e].InternalTimer > 0

\* C20: an Update visits exactly the entities that were members of the Timeline
\* System when it started, whatever its callbacks load meanwhile; an entity that
\* joins during the Update is first visited by the next one.
C20_IteratesSnapshot ==
    [][ last'.op = "Update"
          => \A e \in EntityIds : Visited(trace', e) <=> e \in mEntities ]_vars

\* ------------------------------------------- properties of the engine's frame
\* C21: the pause flag is read and never written during a system's Update: the
\* value IsPaused() returns is the same when TimelineSystem::Update or
\* AnimationSystem::Update returns as when it was called. (The editor's Pause
\* button, handled in the frame Graphics::Update draws, is the control code
\* that writes the flag.)
C21_PauseFlagReadOnly ==
    [][ last'.op \in {"Update", "AnimationSystem::Update"} => paused' = paused ]_vars

\* The callbacks that call SetPaused(false) when their progress is complete.
Unpausing ==
    {"SlideIn", "SlideY", "SlideDiag", "SlideInBounce", "SlideInWobbly", "SlideInCircular"}

\* C21, amended: TimelineSystem::Update changes the pause flag only from true to
\* false, and only when a callback it invoked is one of Unpausing and was given
\* a timer that had reached TransitionDuration; AnimationSystem::Update never
\* changes it.
C21_PauseOnlyClearedByCallback ==
    [][ (last'.op \in {"Update", "AnimationSystem::Update"} /\ paused' # paused)
          => /\ paused /\ ~paused'
             /\ last'.op = "Update"
             /\ \E e \in mEntities : \E i \in DOMAIN trace'[e].calls :
                   LET call == trace'[e].calls[i]
                   IN /\ call.name \in Unpausing
                      /\ "SetPaused(false)" \in call.fx
                      /\ call.timer >= timeline[e].TransitionDuration ]_vars

\* TimelineSystem::Update found the engine paused and SlideInTransition, invoked
\* at the end of the in-phase after a delay of a second, has cleared the flag.
C21_Witness ==
    /\ last.op = "Update" /\ last.paused /\ ~paused
    /\ \E e \in mEntities :
          /\ timeline[e].TransitionInDelay = 1000
          /\ \E i \in DOMAIN trace[e].calls :
                /\ trace[e].calls[i].name = "SlideIn"
                /\ "SetPaused(false)" \in trace[e].calls[i].fx

\* C29: timelines are gated on play mode only.  While the engine is in play mode
\* and paused, an Update still runs every active timeline on a visible layer (it
\* accumulates the delay, or invokes the bound callback), whereas
\* AnimationSystem::Update changes nothing while paused; and so a paused engine
\* with an active timeline in its in-phase whose TransitionIn is SlideUp,
\* SlideDiag, SlideInWobbly or SlideInCircular is eventually un-paused.
Advancing ==
    {"WaitingIn", "TransitioningIn", "InComplete", "WaitingOut", "TransitioningOut",
     "OutComplete"}

ClearingOnCompletion == {"SlideY", "SlideDiag", "SlideInWobbly", "SlideInCircular"}

C29_TimelinesRunWhilePaused ==
    /\ [][ (last'.op = "Update" /\ play /\ paused)
             => \A e \in mEntities :
                  (timeline[e].Active /\ Visible(e))
                     => /\ trace'[e].path \in Advancing
                        /\ trace'[e].path = "WaitingIn"
                              => timeline'[e].DelayAccumulated
                                   = Least(timeline[e].DelayAccumulated + last'.dt, MaxTime)
                        /\ ( /\ timeline[e].IsTransitioningIn
                             /\ trace'[e].path # "WaitingIn"
                             /\ timeline[e].TransitionIn # NoCallback )
                              => Invoked(trace', e, "In") ]_vars
    /\ [][ (last'.op = "AnimationSystem::Update" /\ paused) => ecs' = ecs ]_vars
    /\ ( /\ paused
         /\ play
         /\ \E e \in mEntities :
               /\ timeline[e].Active
               /\ timeline[e].IsTransitioningIn
               /\ Visible(e)
               /\ timeline[e].TransitionIn \in ClearingOnCompletion )
          ~> ~paused

C29_Witness ==
    /\ last.op = "Update"
    /\ last.paused
    /\ ~paused
    /\ play
    /\ \E e \in mEntities :
          /\ timeline[e].TransitionIn = "SlideY"
          /\ \E i \in DOMAIN trace[e].calls :
                /\ trace[e].calls[i].name = "SlideY"
                /\ "SetPaused(false)" \in trace[e].calls[i].fx


\* C22: for a timeline whose phase callback is SlowPrefabFunction, an activation
\* that runs the phase to completion has played the "TimeSlow" cue exactly once
\* and the "TimeGoBack" cue exactly once when the phase completes, in the first
\* activation of the entity and in every later one; and no activation plays
\* either cue more than once.
CompletesSlowPhase(tl, tr) ==
    \/ tr.path = "InComplete" /\ tl.TransitionIn = "SlowAbilityPrefab"
    \/ tr.path = "OutComplete" /\ tl.TransitionOut = "SlowAbilityPrefab"

C22_CuesOncePerActivation ==
    [][ \A e \in mEntities :
          /\ (last'.op = "Update" /\ CompletesSlowPhase(timeline[e], trace'[e]))
                => cues'[e].TimeSlow = 1 /\ cues'[e].TimeGoBack = 1
          /\ cues'[e].TimeSlow <= 1
          /\ cues'[e].TimeGoBack <= 1 ]_vars


\* C23: within one phase the InternalTimer values passed to the phase callback in
\* successive Updates are non-decreasing, and the Update in which a phase ends
\* has invoked the callback bound to that phase with InternalTimer >=
\* TransitionDuration (progress 1.0), for every registered callback.  (With the
\* first half, "no later than the Update in which the phase ends" is this: were
\* progress 1.0 passed earlier, the Update that ends the phase passes no less.)
InPhase(tr) == tr.path \in {"TransitioningIn", "TransitioningOut"} /\ tr.calls # NoCalls

TimerPassedNonDecreasing(e) ==
    (last'.op = "Update" /\ InPhase(trace[e]) /\ trace'[e].calls # NoCalls)
        => trace'[e].calls[1].timer >= trace[e].calls[1].timer

PhaseEndsAtFullProgress(e) ==
    (last'.op = "Update" /\ trace'[e].path \in {"InComplete", "OutComplete"}
        /\ (IF trace'[e].path = "InComplete"
            THEN timeline[e].TransitionIn ELSE timeline[e].TransitionOut) # NoCallback)
        => \E i \in DOMAIN trace'[e].calls :
              trace'[e].calls[i].timer >= timeline[e].TransitionDuration

C23_ProgressMonotonicToOne ==
    [][ \A e \in mEntities :
          TimerPassedNonDecreasing(e) /\ PhaseEndsAtFullProgress(e) ]_vars


\* C26: reactivation does not restart the state machine.  ToggleActive changes
\* no field but Active; an Update that completes the out-phase with a callback
\* that writes no timeline field leaves IsTransitioningIn false and the timers at
\* their advanced values (out-delay elapsed, InternalTimer >= TransitionDuration);
\* and the first Update in play mode on a visible layer of a timeline in that
\* condition which ToggleActive has made active again invokes TransitionOut once
\* (when one is bound), never TransitionIn, and leaves Active false.
OutPhaseDone(tl) ==
    /\ ~tl.IsTransitioningIn
    /\ tl.DelayOutAccumulated >= tl.TransitionOutDelay
    /\ tl.InternalTimer >= tl.TransitionDuration

\* The callback TransitionOut, called by an Update of deltaTime dt, writes no
\* field of the TimelineComponent.
QuietOut(tl, dt) ==
    LET started == [tl EXCEPT !.DelayOutAccumulated = @ + dt, !.InternalTimer = @ + dt]
    IN tl.TransitionOut = NoCallback
          \/ Call(tl.TransitionOut, started, started.InternalTimer).tl = started

OutCalls(tr) == {i \in DOMAIN tr.calls : tr.calls[i].phase = "Out"}

C26_ReactivationDoesNotRestart ==
    [][ \A e \in mEntities :
          /\ last'.op = "ToggleActive"
                => timeline'[e] = [timeline[e] EXCEPT !.Active = timeline'[e].Active]
          /\ ( /\ last'.op = "Update"
               /\ trace'[e].path = "OutComplete"
               /\ QuietOut(timeline[e], last'.dt) )
                => /\ OutPhaseDone(timeline'[e])
                   /\ ~timeline'[e].Active
                   /\ timeline'[e].InternalTimer = timeline[e].InternalTimer + last'.dt
          /\ ( /\ last'.op = "Update" /\ play /\ Visible(e)
               /\ timeline[e].Active
               /\ OutPhaseDone(timeline[e])
               /\ QuietOut(timeline[e], last'.dt) )
                => /\ ~timeline'[e].Active
                   /\ trace'[e].path = "OutComplete"
                   /\ ~Invoked(trace', e, "In")
                   /\ Cardinality(OutCalls(trace'[e]))
                        = IF timeline[e].TransitionOut = NoCallback THEN 0 ELSE 1 ]_vars

\* An Update has just run the out-phase of a reactivated timeline again: the
\* timer had reached TransitionDuration before this Update began.
C26_Witness ==
    /\ last.op = "Update"
    /\ \E e \in mEntities :
          /\ trace[e].path = "OutComplete"
          /\ timeline[e].TransitionOut = "FadeOut"
          /\ ~timeline[e].Active
          /\ timeline[e].InternalTimer - last.dt >= timeline[e].TransitionDuration
          /\ Cardinality(OutCalls(trace[e])) = 1


\* C27: every activation terminates.  In play mode, on a visible layer, with
\* every frame's deltaTime half a second or more and finite delays and duration,
\* a timeline with Active true eventually has Active false, for every binding of
\* the registered callbacks as TransitionIn and TransitionOut.
C27_EveryActivationTerminates ==
    \A e \in EntityIds :
        (e \in mEntities /\ timeline[e].Active)
            ~> (e \in mEntities /\ ~timeline[e].Active)


\* C25: UE_CollidedShortAnimation plays the animationPlayed sheet for one cycle
\* and then the default.  While an entity shows animationPlayed (different from
\* its default) and is not hit again, every AnimationSystem::Update either keeps
\* the sheet with the frame index (int)(animationTimePlay * animationSpeed) still
\* inside the sheet, below rows*cols, and currentFrame not behind where it was,
\* or has switched textureID to the default with currentFrame = 0 and
\* animationTimePlay = 0: the index never wraps around into a second cycle,
\* whatever the frame times.
ShortAnimation(c, e) ==
    IF HasComponent(c, "EnemyComponent", e)
    THEN [played |-> "BossDamage", default |-> "BossIdle"]
    ELSE IF GetComponent(c, "PlayerComponent", e).health = 0
         THEN [played |-> "McDieSprite", default |-> "dead"]
         ELSE [played |-> "McDamagedSprite", default |-> "McIdleSprite"]

Playing(c, e) ==
    GetComponent(c, "RenderComponent", e).textureID = ShortAnimation(c, e).played

C25_ShortAnimationPlaysOneCycle ==
    [][ \A e \in EntityIds :
          ( /\ last'.op = "AnimationSystem::Update"
            /\ ~paused
            /\ e \in AnimationMembers(ecs)
            /\ Playing(ecs, e)
            /\ ~GetComponent(ecs, "CollisionComponent", e).collided )
             => LET sheet == animations[ShortAnimation(ecs, e).played]
                    before == GetComponent(ecs, "AnimationComponent", e)
                    after == GetComponent(ecs', "AnimationComponent", e)
                    index == FrameIndex(after.animationTimePlay, sheet.animationSpeed)
                IN IF Playing(ecs', e)
                   THEN /\ index < sheet.rows * sheet.cols
                        /\ after.currentFrame = index
                        /\ after.currentFrame >= before.currentFrame
                   ELSE /\ GetComponent(ecs', "RenderComponent", e).textureID
                              = ShortAnimation(ecs, e).default
                        /\ after.currentFrame = 0
                        /\ after.animationTimePlay = 0 ]_vars


\* C24: in Graphics::Update, when every member holds the LayerComponent the
\* keys are read from, sortedEntities is a permutation of the member set (every
\* member exactly once) in ascending order of layerID, then sortID, then entity
\* id; the comparator places one of any two different members before the other
\* and never both, so the keys determine the order.
SortKey(c, e) ==
    LET layer == GetComponent(c, "LayerComponent", e)
    IN <<LayerOrder(layer.layerID), layer.sortID, e>>

KeyBefore(k, l) ==
    \/ k[1] < l[1]
    \/ k[1] = l[1] /\ k[2] < l[2]
    \/ k[1] = l[1] /\ k[2] = l[2] /\ k[3] < l[3]

C24_SortedByLayerSortEntity ==
    [][ (last'.op = "Graphics::Update" /\ Unmet(ecs, GraphicsReads(ecs)) = {})
          => /\ Len(sortedEntities') = Cardinality(GraphicsMembers(ecs))
             /\ Range(sortedEntities') = GraphicsMembers(ecs)
             /\ \A i, j \in DOMAIN sortedEntities' :
                   i < j => KeyBefore(SortKey(ecs, sortedEntities'[i]),
                                      SortKey(ecs, sortedEntities'[j]))
             /\ \A a, b \in GraphicsMembers(ecs) :
                   a # b => (Compare(ecs, a, b) <=> ~Compare(ecs, b, a)) ]_vars

\* The sort has put entity 2 before entity 1, whose sort id is the greater.
C24_Witness ==
    /\ last.op = "Graphics::Update"
    /\ sortedEntities = <<2, 1>>
    /\ GraphicsMembers(ecs) = {1, 2}
    /\ GetComponent(ecs, "LayerComponent", 1).layerID
          = GetComponent(ecs, "LayerComponent", 2).layerID
    /\ GetComponent(ecs, "LayerComponent", 1).sortID
          > GetComponent(ecs, "LayerComponent", 2).sortID


\* C28: every GetComponent<T>(E) that a system's Update makes on a member E
\* meets its precondition HasComponent<T>(E), the kind being in the system's
\* signature or the call guarded by a HasComponent<T> test: in Graphics::Update,
\* in TimelineSystem::Update (which reads the members in play mode only) and in
\* AnimationSystem::Update (which reads them unless paused), for every entity the
\* membership rule admits.
C28_ReadsMeetPrecondition ==
    [][ /\ last'.op = "Graphics::Update" => Unmet(ecs, GraphicsReads(ecs)) = {}
        /\ (last'.op = "Update" /\ play) => Unmet(ecs, TimelineReads(ecs)) = {}
        /\ ~paused => Unmet(ecs, AnimationReads(ecs)) = {} ]_vars


\* C30: every DestroyEntity the editor's "Delete Entity" confirmation issues
\* targets an entity that is valid at the moment of the call and is the one the
\* user selected: selectedEntity is then never an id whose entity has been
\* destroyed since the selection (by Delete All, by Stop's reload or by
\* gameplay), whether the id is free or taken by another entity.
C30_DeleteTargetsSelection ==
    \A i \in DOMAIN last.deleted : last.deleted[i].valid /\ ~last.deleted[i].stale

====
